---------------------------- MODULE Spec2Model ----------------------------
(***************************************************************************)
(* A model of splink's blocking compiler (src/splink/blocking.py), of the  *)
(* Linker's SQL pipeline and caching facade (src/splink/linker.py with the *)
(* DuckDB backend, src/splink/duckdb/duckdb_linker.py) and of the          *)
(* ComparisonLevel probability model (src/splink/comparison_level.py).     *)
(*                                                                         *)
(* Three specifications share the variables; each leaves the other two     *)
(* parts idle:                                                             *)
(*   SpecBlocking  block_using_rules applied to a bounded settings/table   *)
(*   SpecLinker    enqueue_sql / execute_sql_pipeline / sql_to_dataframe   *)
(*   SpecLevel     one ComparisonLevel: construction, setters, training    *)
(***************************************************************************)
EXTENDS Integers, Sequences, FiniteSets, TLC

VARIABLES
    \* ---- blocking.py ----
    settings,      \* the settings dict: link_type, blocking_rules (or no such key)
    df,            \* the input table "df": (source_dataset, unique_id) -> columns
    b_pc,          \* "start" before block_using_rules, "done" after it
    df_comparison, \* what block_using_rules produced: [raised, sqls, rows]
    \* ---- linker.py, duckdb_linker.py ----
    tables,        \* the backend's tables: physical name -> the SQL text they hold
    queue,         \* self.pipeline.queue: the enqueued stages
    n_backend,     \* how many times the backend's execute_sql has been called
    n_calls,       \* how many times sql_to_dataframe has been called
    ret,           \* the last operation and what it returned
    watch,         \* one (SQL text, output name): the call whose repeats are counted
    w_stat,        \* backend executions and physical tables of the watched call
    \* ---- comparison_level.py ----
    level,         \* one ComparisonLevel: its attributes
    lv_ret,        \* the last operation on the level and whether it raised
    comparison_levels, \* the levels handed to the level's _tf_adjustment_sql
    tf_ret,        \* what _tf_adjustment_sql returned
    \* ---- linker.py: the training history and the match prior ----
    other_levels,  \* the settings' levels besides `level`
    em_training_sessions,  \* self.em_training_sessions
    proportion_of_matches, \* self.settings_obj._proportion_of_matches
    pm_ret,        \* the last populate_proportion_of_matches_from_trained_values
    \* ---- linker.py: __deepcopy__ and the EM session in flight ----
    new_linker,    \* the Linker __deepcopy__ returned: its own attributes
    em_session     \* the EMTrainingSession being trained: state and iteration

bvars == <<settings, df, b_pc, df_comparison>>
lvars == <<tables, queue, n_backend, n_calls, ret, watch, w_stat>>

tvars == <<comparison_levels, tf_ret>>
pvars == <<other_levels, em_training_sessions, proportion_of_matches, pm_ret>>
cvars == <<level, lv_ret, comparison_levels, tf_ret,
           other_levels, em_training_sessions, proportion_of_matches, pm_ret>>
kvars == <<new_linker, em_session>>

vars == <<settings, df, b_pc, df_comparison,
          tables, queue, n_backend, n_calls, ret, watch, w_stat,
          level, lv_ret, comparison_levels, tf_ret,
          other_levels, em_training_sessions, proportion_of_matches, pm_ret,
          new_linker, em_session>>

(***************************************************************************)
(* SQL values and three-valued logic, as the backend evaluates the text    *)
(* blocking.py generates.                                                  *)
(***************************************************************************)
NULL == "NULL"

\* SQL truth values: true, false, unknown
T3 == "T"
F3 == "F"
N3 == "N"

Not3(v) == IF v = T3 THEN F3 ELSE IF v = F3 THEN T3 ELSE N3

And3(a, b) ==
    IF a = F3 \/ b = F3 THEN F3
    ELSE IF a = T3 /\ b = T3 THEN T3
    ELSE N3

Or3(a, b) ==
    IF a = T3 \/ b = T3 THEN T3
    ELSE IF a = F3 /\ b = F3 THEN F3
    ELSE N3

\* a = b on two column values
SqlEq(a, b) == IF a = NULL \/ b = NULL THEN N3 ELSE IF a = b THEN T3 ELSE F3

\* ifnull(v, false)
IfNullFalse(v) == IF v = N3 THEN F3 ELSE v

\* OR over a sequence of truth values; the empty OR does not occur in the SQL
RECURSIVE OrAll(_)
OrAll(vs) ==
    IF Len(vs) = 0 THEN F3
    ELSE IF Len(vs) = 1 THEN vs[1]
    ELSE Or3(vs[1], OrAll(Tail(vs)))

(***************************************************************************)
(* Strings as sequences of characters, compared byte-wise.                 *)
(***************************************************************************)
Ord(c) ==
    CASE c = "-" -> 45
      [] c = "0" -> 48
      [] c = "1" -> 49
      [] c = "2" -> 50
      [] c = "_" -> 95
      [] c = "a" -> 97
      [] c = "b" -> 98

RECURSIVE StrLess(_, _)
StrLess(s, t) ==
    IF Len(t) = 0 THEN FALSE
    ELSE IF Len(s) = 0 THEN TRUE
    ELSE IF Ord(s[1]) < Ord(t[1]) THEN TRUE
    ELSE IF Ord(s[1]) > Ord(t[1]) THEN FALSE
    ELSE StrLess(Tail(s), Tail(t))

\* the decimal text of a unique_id, as concat() casts it
IntToStr(n) ==
    CASE n = 1 -> <<"1">>
      [] n = 2 -> <<"2">>
      [] n = 10 -> <<"1", "0">>
      [] n = 12 -> <<"1", "2">>

(***************************************************************************)
(* Bounds and value domains of the blocking model.                         *)
(***************************************************************************)
MaxRecords == 3
MaxRules == 2

LinkTypes == {"dedupe_only", "link_only", "link_and_dedupe"}
Sources == {<<"a">>, <<"b">>}
Uids == {2, 10}
Names == {NULL, "x", "y"}
Keys == [source_dataset : Sources, unique_id : Uids]
Cols == [surname : Names, forename : Names]
Rules == {"l.surname = r.surname", "l.forename = r.forename"}
RuleLists == UNION {[1..n -> Rules] : n \in 0..MaxRules}

\* the other parts' view of an unused blocking compiler
BlockingIdle ==
    /\ settings = [link_type |-> "link_and_dedupe", has_blocking_rules |-> FALSE,
                   blocking_rules |-> <<>>]
    /\ df = <<>>
    /\ b_pc = "idle"
    /\ df_comparison = [raised |-> FALSE, sqls |-> <<>>, rows |-> {}]

\* a row of the table: its key and its columns
Rec(k) == [source_dataset |-> k.source_dataset, unique_id |-> k.unique_id,
           surname |-> df[k].surname, forename |-> df[k].forename]

\* a blocking rule evaluated on the aliased pair (l, r)
EvalRule(rule, l, r) ==
    CASE rule = "l.surname = r.surname" -> SqlEq(l.surname, r.surname)
      [] rule = "l.forename = r.forename" -> SqlEq(l.forename, r.forename)

(***************************************************************************)
(* blocking.py: the SQL generators.  Generated SQL is kept as a structure  *)
(* (one record per select of the UNION ALL) and evaluated by EvalSelect.   *)
(***************************************************************************)
\* mutant: the exclusion of the previous rules is dropped
sql_gen_and_not_previous_rules_dropped(previous_rules) ==
    [empty |-> TRUE, or_clauses |-> <<>>]

\* "AND NOT (ifnull((r0), false) OR ...)", or "" when there is no previous rule
sql_gen_and_not_previous_rules(previous_rules) ==
    IF Len(previous_rules) > 0
    THEN [empty |-> FALSE,
          or_clauses |-> [i \in 1..Len(previous_rules) |->
                            [ifnull |-> TRUE, rule |-> previous_rules[i]]]]
    ELSE [empty |-> TRUE, or_clauses |-> <<>>]

\* concat(x.source_dataset, '-__-', x.unique_id)
sql_gen_composite_unique_id(x) ==
    x.source_dataset \o <<"-", "_", "_", "-">> \o IntToStr(x.unique_id)

\* mutant: link_only loses "and l.source_dataset != r.source_dataset"
sql_gen_where_condition_no_source_test(link_type) ==
    IF link_type \in {"link_and_dedupe", "link_only"}
    THEN [raised |-> FALSE, id_op |-> "<", source_ne |-> FALSE]
    ELSE [raised |-> TRUE, id_op |-> "", source_ne |-> FALSE]

\* the where clause; no branch assigns where_condition for dedupe_only, so the
\* return statement raises UnboundLocalError
sql_gen_where_condition(link_type) ==
    IF link_type = "link_and_dedupe"
    THEN [raised |-> FALSE, id_op |-> "<", source_ne |-> FALSE]
    ELSE IF link_type = "link_only"
    THEN [raised |-> FALSE, id_op |-> "<", source_ne |-> TRUE]
    ELSE [raised |-> TRUE, id_op |-> "", source_ne |-> FALSE]

\* one select per rule, in declared order, joined by "union all"
sql_gen_block_using_rules(link_type, blocking_rules) ==
    LET where_condition == sql_gen_where_condition(link_type)
    IN  IF where_condition.raised
        THEN [raised |-> TRUE, sqls |-> <<>>]
        ELSE [raised |-> FALSE,
              sqls |-> [i \in 1..Len(blocking_rules) |->
                  [join |-> "inner join",
                   on |-> blocking_rules[i],
                   not_previous_rules_statement |->
                       sql_gen_and_not_previous_rules(SubSeq(blocking_rules, 1, i - 1)),
                   where_condition |-> where_condition,
                   match_key |-> i - 1]]]

\* the cross join, tagged match_key '0'
sql_gen_cartesian_block(link_type) ==
    LET where_condition == sql_gen_where_condition(link_type)
    IN  IF where_condition.raised
        THEN [raised |-> TRUE, sqls |-> <<>>]
        ELSE [raised |-> FALSE,
              sqls |-> << [join |-> "cross join",
                           on |-> "",
                           not_previous_rules_statement |->
                               [empty |-> TRUE, or_clauses |-> <<>>],
                           where_condition |-> where_condition,
                           match_key |-> 0] >>]

(***************************************************************************)
(* What the backend computes from the generated SQL.                       *)
(***************************************************************************)
EvalNotPrevious(stmt, l, r) ==
    IF stmt.empty THEN T3
    ELSE Not3(OrAll([i \in 1..Len(stmt.or_clauses) |->
             IF stmt.or_clauses[i].ifnull
             THEN IfNullFalse(EvalRule(stmt.or_clauses[i].rule, l, r))
             ELSE EvalRule(stmt.or_clauses[i].rule, l, r)]))

\* string comparison of the two composite ids
SqlCmp(op, s, t) ==
    IF op = "<" THEN (IF StrLess(s, t) THEN T3 ELSE F3)
    ELSE IF op = "<=" THEN (IF s = t \/ StrLess(s, t) THEN T3 ELSE F3)
    ELSE T3

EvalWhere(w, l, r) ==
    And3(SqlCmp(w.id_op, sql_gen_composite_unique_id(l),
                sql_gen_composite_unique_id(r)),
         IF w.source_ne
         THEN (IF l.source_dataset # r.source_dataset THEN T3 ELSE F3)
         ELSE T3)

EvalOn(sel, l, r) ==
    IF sel.join = "cross join" THEN T3
    ELSE And3(EvalRule(sel.on, l, r),
              EvalNotPrevious(sel.not_previous_rules_statement, l, r))

\* the rows of one select: the pairs of the self-join that pass ON and WHERE
EvalSelect(sel) ==
    {[l |-> kl, r |-> kr, match_key |-> sel.match_key] :
        <<kl, kr>> \in {p \in (DOMAIN df) \X (DOMAIN df) :
            /\ EvalOn(sel, Rec(p[1]), Rec(p[2])) = T3
            /\ EvalWhere(sel.where_condition, Rec(p[1]), Rec(p[2])) = T3}}

\* block_using_rules: the cartesian block without rules, else the rule selects;
\* the rows of a UNION ALL are the rows of every select (match_key tells them apart)
block_using_rules ==
    LET sql == IF ~settings.has_blocking_rules \/ Len(settings.blocking_rules) = 0
               THEN sql_gen_cartesian_block(settings.link_type)
               ELSE sql_gen_block_using_rules(settings.link_type,
                                              settings.blocking_rules)
    IN  [raised |-> sql.raised,
         sqls |-> sql.sqls,
         rows |-> UNION {EvalSelect(sql.sqls[i]) : i \in 1..Len(sql.sqls)}]


(***************************************************************************)
(* comparison_level.py: one ComparisonLevel.  A probability is a record    *)
(* [kind, n, d]: "none" (None), "not_observed" (LEVEL_NOT_OBSERVED_TEXT),  *)
(* "num" (the number n/d), and for computed values also "inf" (math.inf),  *)
(* "log2" (the base-2 logarithm of n/d) and "error" (an exception).        *)
(* Numbers are exact fractions in lowest terms.                            *)
(***************************************************************************)
MaxLevels == 3
MaxTrained == 1

RECURSIVE GCD(_, _)
GCD(a, b) == IF b = 0 THEN a ELSE GCD(b, a % b)

Num(n, d) == [kind |-> "num", n |-> n \div GCD(n, d), d |-> d \div GCD(n, d)]
None == [kind |-> "none", n |-> 0, d |-> 1]
LEVEL_NOT_OBSERVED_TEXT == [kind |-> "not_observed", n |-> 0, d |-> 1]
Inf == [kind |-> "inf", n |-> 1, d |-> 0]
Error == [kind |-> "error", n |-> 0, d |-> 1]

IsNum(x) == x.kind = "num"
Div(a, b) == Num(a.n * b.d, a.d * b.n)
Add(a, b) == Num(a.n * b.d + b.n * a.d, a.d * b.d)
\* a < b, for numbers and math.inf
Less(a, b) ==
    IF a.kind = "inf" THEN FALSE
    ELSE IF b.kind = "inf" THEN TRUE
    ELSE a.n * b.d < b.n * a.d

RECURSIVE Pow2(_)
Pow2(k) == IF k = 0 THEN 1 ELSE 2 * Pow2(k - 1)

\* math.log2
Log2(x) ==
    IF x.kind = "inf" THEN Inf
    ELSE IF x.kind # "num" \/ x.n = 0 THEN Error
    ELSE IF x.n = x.d THEN Num(0, 1)
    ELSE [kind |-> "log2", n |-> x.n, d |-> x.d]

\* the probabilities a caller fixes, and the values a setter is given
FixedProbabilities == {Num(0, 1), Num(1, 4), Num(1, 2)}
StoredProbabilities == {None, LEVEL_NOT_OBSERVED_TEXT} \cup FixedProbabilities
TrainedValues == {LEVEL_NOT_OBSERVED_TEXT, Num(1, 4)}

\* python's vals[i]: a negative index counts from the end
Index(vals, i) == IF i < 0 THEN vals[Len(vals) + i + 1] ELSE vals[i + 1]

\* mutant: the remainder is given whole to every other level
default_m_values_unsplit(num_levels) ==
    [i \in 1..num_levels |->
        IF i = num_levels THEN Num(19, 20) ELSE Num(1, 20)]

\* _default_m_values: 0.95 on the last level, the rest split evenly
default_m_values(num_levels) ==
    [i \in 1..num_levels |->
        IF i = num_levels THEN Num(19, 20) ELSE Num(1, 20 * (num_levels - 1))]

\* misc.interpolate(-5, 3, num_levels - 1), for the numbers of levels that
\* give whole match weights
interpolate(num_elements) ==
    [i \in 1..num_elements |-> -5 + ((i - 1) * 8) \div (num_elements - 1)]

\* misc.match_weight_to_bayes_factor: 2 ** weight
match_weight_to_bayes_factor(w) ==
    IF w >= 0 THEN Num(Pow2(w), 1) ELSE Num(1, Pow2(-w))

\* _default_u_values: u = m / 2^weight, weights -5 .. 3 and 10 on the last level
default_u_values(num_levels) ==
    LET m_vals == default_m_values(num_levels)
        match_weights == (IF num_levels = 2 THEN <<-5>>
                          ELSE interpolate(num_levels - 1)) \o <<10>>
    IN  [i \in 1..num_levels |->
            Div(m_vals[i], match_weight_to_bayes_factor(match_weights[i]))]

\* the m_probability getter
m_probability(lv) ==
    IF lv.is_null_level THEN None
    ELSE IF lv.m_probability = LEVEL_NOT_OBSERVED_TEXT THEN Num(1, 1000000)
    ELSE IF lv.m_probability = None /\ lv.has_comparison
    THEN Index(default_m_values(lv.num_levels), lv.comparison_vector_value)
    ELSE lv.m_probability

\* the u_probability getter; without a Comparison self.comparison._num_levels
\* raises AttributeError
u_probability(lv) ==
    IF lv.is_null_level THEN None
    ELSE IF lv.u_probability = LEVEL_NOT_OBSERVED_TEXT THEN Num(1, 1000000)
    ELSE IF lv.u_probability = None
    THEN (IF lv.has_comparison
          THEN Index(default_u_values(lv.num_levels), lv.comparison_vector_value)
          ELSE Error)
    ELSE lv.u_probability

\* mutant: the null level is not asked for first
bayes_factor_no_null_test(lv) ==
    IF m_probability(lv) = None THEN None
    ELSE IF u_probability(lv) = None THEN None
    ELSE IF u_probability(lv) = Error THEN Error
    ELSE IF u_probability(lv).n = 0 THEN Inf
    ELSE Div(m_probability(lv), u_probability(lv))

\* mutant: u == 0 is not asked for, and the division raises ZeroDivisionError
bayes_factor_no_zero_test(lv) ==
    IF lv.is_null_level THEN Num(1, 1)
    ELSE IF m_probability(lv) = None THEN None
    ELSE IF u_probability(lv) = None THEN None
    ELSE IF u_probability(lv) = Error THEN Error
    ELSE IF u_probability(lv).n = 0 THEN Error
    ELSE Div(m_probability(lv), u_probability(lv))

\* the _bayes_factor property
bayes_factor(lv) ==
    IF lv.is_null_level THEN Num(1, 1)
    ELSE IF m_probability(lv) = None THEN None
    ELSE IF u_probability(lv) = None THEN None
    ELSE IF u_probability(lv) = Error THEN Error
    ELSE IF u_probability(lv).n = 0 THEN Inf
    ELSE Div(m_probability(lv), u_probability(lv))

\* the _log2_bayes_factor property
log2_bayes_factor(lv) ==
    IF lv.is_null_level THEN Num(0, 1) ELSE Log2(bayes_factor(lv))

\* _bayes_factor_sql: WHEN gamma = value THEN cast(<bayes factor> as float8),
\* the literal 'Infinity' standing for math.inf
bayes_factor_sql(lv) ==
    [when_gamma |-> lv.comparison_vector_value,
     then_cast |-> IF bayes_factor(lv) # Inf
                   THEN [literal |-> "", value |-> bayes_factor(lv)]
                   ELSE [literal |-> "'Infinity'", value |-> Inf]]

\* mutant: the setter assigns on a null level too
set_m_probability_no_null_test(lv, value) ==
    IF value = LEVEL_NOT_OBSERVED_TEXT /\ ~lv.has_comparison
    THEN [raised |-> TRUE, error |-> "AttributeError", warned |-> FALSE, level |-> lv]
    ELSE [raised |-> FALSE, error |-> "",
          warned |-> value = LEVEL_NOT_OBSERVED_TEXT /\ ~lv.m_warning_sent,
          level |-> [lv EXCEPT
              !.m_warning_sent = @ \/ value = LEVEL_NOT_OBSERVED_TEXT,
              !.m_probability = value]]

\* mutant: the setter warns whether or not it has warned before
set_m_probability_warns_again(lv, value) ==
    IF lv.is_null_level THEN [raised |-> TRUE, error |-> "AttributeError", warned |-> FALSE, level |-> lv]
    ELSE IF value = LEVEL_NOT_OBSERVED_TEXT /\ ~lv.has_comparison
    THEN [raised |-> TRUE, error |-> "AttributeError", warned |-> FALSE, level |-> lv]
    ELSE [raised |-> FALSE, error |-> "",
          warned |-> value = LEVEL_NOT_OBSERVED_TEXT,
          level |-> [lv EXCEPT
              !.m_warning_sent = @ \/ value = LEVEL_NOT_OBSERVED_TEXT,
              !.m_probability = value]]

\* the m_probability setter; the warning names the owning Comparison,
\* and without one self.comparison.output_column_name raises
set_m_probability(lv, value) ==
    IF lv.is_null_level THEN [raised |-> TRUE, error |-> "AttributeError", warned |-> FALSE, level |-> lv]
    ELSE IF value = LEVEL_NOT_OBSERVED_TEXT /\ ~lv.has_comparison
    THEN [raised |-> TRUE, error |-> "AttributeError", warned |-> FALSE, level |-> lv]
    ELSE [raised |-> FALSE, error |-> "",
          warned |-> value = LEVEL_NOT_OBSERVED_TEXT /\ ~lv.m_warning_sent,
          level |-> [lv EXCEPT
              !.m_warning_sent = @ \/ value = LEVEL_NOT_OBSERVED_TEXT,
              !.m_probability = value]]

\* the u_probability setter; the warning names the owning Comparison,
\* and without one self.comparison.output_column_name raises
set_u_probability(lv, value) ==
    IF lv.is_null_level THEN [raised |-> TRUE, error |-> "AttributeError", warned |-> FALSE, level |-> lv]
    ELSE IF value = LEVEL_NOT_OBSERVED_TEXT /\ ~lv.has_comparison
    THEN [raised |-> TRUE, error |-> "AttributeError", warned |-> FALSE, level |-> lv]
    ELSE [raised |-> FALSE, error |-> "",
          warned |-> value = LEVEL_NOT_OBSERVED_TEXT /\ ~lv.u_warning_sent,
          level |-> [lv EXCEPT
              !.u_warning_sent = @ \/ value = LEVEL_NOT_OBSERVED_TEXT,
              !.u_probability = value]]

add_trained_m_probability(lv, val) ==
    [lv EXCEPT !.trained_m_probabilities =
                   Append(@, [probability |-> val, m_or_u |-> "m"])]

add_trained_u_probability(lv, val) ==
    [lv EXCEPT !.trained_u_probabilities =
                   Append(@, [probability |-> val, m_or_u |-> "u"])]

\* the numeric values of a trained history, in history order
\* ([v for v in vals if isinstance(v, (int, float))])
numeric_values(history) ==
    LET is_numeric(r) == IsNum(r.probability)
        kept == SelectSeq(history, is_numeric)
    IN  [i \in 1..Len(kept) |-> kept[i].probability]

\* sorted(vals)
RECURSIVE Insert(_, _)
Insert(sorted, x) ==
    IF sorted = <<>> THEN <<x>>
    ELSE IF Less(x, Head(sorted)) THEN <<x>> \o sorted
    ELSE <<Head(sorted)>> \o Insert(Tail(sorted), x)

RECURSIVE Sorted(_)
Sorted(vals) ==
    IF vals = <<>> THEN <<>> ELSE Insert(Sorted(Tail(vals)), Head(vals))

\* mutant: the middle of the history as it stands, unsorted
median_unsorted(vals) ==
    LET n == Len(vals)
    IN  IF n % 2 = 1 THEN vals[(n + 1) \div 2]
        ELSE Div(Add(vals[n \div 2], vals[n \div 2 + 1]), Num(2, 1))

\* statistics.median of a non-empty list
median(vals) ==
    LET data == Sorted(vals)
        n == Len(data)
    IN  IF n % 2 = 1 THEN data[(n + 1) \div 2]
        ELSE Div(Add(data[n \div 2], data[n \div 2 + 1]), Num(2, 1))

\* _trained_m_median
trained_m_median(lv) ==
    LET vals == numeric_values(lv.trained_m_probabilities)
    IN  IF Len(vals) = 0 THEN None ELSE median(vals)

\* _trained_u_median
trained_u_median(lv) ==
    LET vals == numeric_values(lv.trained_u_probabilities)
    IN  IF Len(vals) = 0 THEN None ELSE median(vals)

\* _m_is_trained
m_is_trained(lv) ==
    IF lv.is_null_level THEN TRUE
    ELSE IF lv.m_probability = LEVEL_NOT_OBSERVED_TEXT THEN FALSE
    ELSE IF lv.m_probability = None THEN FALSE
    ELSE TRUE

\* _u_is_trained
u_is_trained(lv) ==
    IF lv.is_null_level THEN TRUE
    ELSE IF lv.u_probability = LEVEL_NOT_OBSERVED_TEXT THEN FALSE
    ELSE IF lv.u_probability = None THEN FALSE
    ELSE TRUE

\* mutant: the trained values are consumed when they are committed
populate_m_u_from_trained_values_consuming(lv) ==
    LET ru == IF u_is_trained(lv)
              THEN set_u_probability(lv, trained_u_median(lv))
              ELSE [raised |-> FALSE, error |-> "", warned |-> FALSE, level |-> lv]
        rm == IF m_is_trained(ru.level)
              THEN set_m_probability(ru.level, trained_m_median(ru.level))
              ELSE [raised |-> FALSE, error |-> "", warned |-> FALSE,
                    level |-> ru.level]
    IN  IF ru.raised THEN ru
        ELSE [rm EXCEPT !.level.trained_m_probabilities = <<>>,
                        !.level.trained_u_probabilities = <<>>]

\* Linker.populate_m_u_from_trained_values, the body of its loop for one
\* level: cl.u_is_trained, cl.trained_u_median, ... are the level's
\* properties of these names
populate_m_u_from_trained_values(lv) ==
    LET ru == IF u_is_trained(lv)
              THEN set_u_probability(lv, trained_u_median(lv))
              ELSE [raised |-> FALSE, error |-> "", warned |-> FALSE, level |-> lv]
        rm == IF m_is_trained(ru.level)
              THEN set_m_probability(ru.level, trained_m_median(ru.level))
              ELSE [raised |-> FALSE, error |-> "", warned |-> FALSE,
                    level |-> ru.level]
    IN  IF ru.raised THEN ru ELSE rm

\* A sql_condition is ELSE, or the AND of its clauses; a clause is the name
\* of a column when it is an exact match col_l = col_r on it, and OtherClause
\* when it is anything else.
OtherClause == "~"
Columns == {"first_name", "surname"}
Else == [is_else |-> TRUE, clauses |-> <<>>]
Condition(clauses) == [is_else |-> FALSE, clauses |-> clauses]
NoColumn == "None"

\* the constructor's defaults for the term frequency attributes, on a level
\* whose condition is no exact match
TfDefaults ==
    [sql_condition |-> Condition(<<OtherClause>>),
     tf_adjustment_column |-> NoColumn,
     tf_adjustment_weight |-> Num(1, 1),
     tf_minimum_u_value |-> Num(0, 1)]

\* an empty or zero value is false in a python test
Truthy(x) == x # None /\ ~(IsNum(x) /\ x.n = 0)

\* as_dict; a key the dict does not hold has its has_ field FALSE
as_dict(lv) ==
    [sql_condition |-> lv.sql_condition,
     has_m_probability |-> Truthy(lv.m_probability) /\ m_is_trained(lv),
     m_probability |-> IF Truthy(lv.m_probability) /\ m_is_trained(lv)
                       THEN m_probability(lv) ELSE None,
     has_u_probability |-> Truthy(lv.u_probability) /\ u_is_trained(lv),
     u_probability |-> IF Truthy(lv.u_probability) /\ u_is_trained(lv)
                       THEN u_probability(lv) ELSE None,
     has_tf_adjustment_column |-> lv.tf_adjustment_column # NoColumn,
     tf_adjustment_column |-> lv.tf_adjustment_column,
     has_tf_adjustment_weight |-> lv.tf_adjustment_column # NoColumn
                                  /\ lv.tf_adjustment_weight.n # 0,
     tf_adjustment_weight |-> IF lv.tf_adjustment_column # NoColumn
                                 /\ lv.tf_adjustment_weight.n # 0
                              THEN lv.tf_adjustment_weight ELSE None,
     has_is_null_level |-> lv.is_null_level]

\* ComparisonLevel.__init__ on the keys of a dict as_dict returned: a key the
\* dict does not hold takes the constructor's default
ComparisonLevel(dict) ==
    [is_null_level |-> dict.has_is_null_level,
     m_probability |-> IF dict.has_m_probability THEN dict.m_probability ELSE None,
     u_probability |-> IF dict.has_u_probability THEN dict.u_probability ELSE None,
     has_comparison |-> FALSE, num_levels |-> 0, comparison_vector_value |-> 0,
     m_warning_sent |-> FALSE, u_warning_sent |-> FALSE,
     trained_m_probabilities |-> <<>>, trained_u_probabilities |-> <<>>,
     sql_condition |-> dict.sql_condition,
     tf_adjustment_column |-> IF dict.has_tf_adjustment_column
                              THEN dict.tf_adjustment_column ELSE NoColumn,
     tf_adjustment_weight |-> IF dict.has_tf_adjustment_weight
                              THEN dict.tf_adjustment_weight ELSE Num(1, 1),
     tf_minimum_u_value |-> Num(0, 1)]

\* the comparison vector values the owning Comparison hands out
VectorValues(num_levels, is_null_level) ==
    IF is_null_level THEN {-1} ELSE 0..(num_levels - 1)

NoLevelReturn == [op |-> "", raised |-> FALSE, error |-> "", warned |-> FALSE]

(***************************************************************************)
(* Term frequency adjustment: the SQL _tf_adjustment_sql generates, kept as *)
(* a structure, and what the backend computes from it for a pair.          *)
(***************************************************************************)
\* a term frequency the pair's row does not hold
SqlNull == [kind |-> "null", n |-> 0, d |-> 1]

\* _is_else_level
is_else_level(lv) == lv.sql_condition.is_else

\* _has_tf_adjustments
has_tf_adjustments(lv) == lv.tf_adjustment_column # NoColumn

\* _is_exact_match: every AND subclause is col_l = col_r on one column
is_exact_match(lv) ==
    IF is_else_level(lv) THEN FALSE
    ELSE \A i \in 1..Len(lv.sql_condition.clauses) :
             lv.sql_condition.clauses[i] # OtherClause

\* _exact_match_colnames (of a level that is an exact match)
exact_match_colnames(lv) == lv.sql_condition.clauses

\* the levels _u_probability_corresponding_to_exact_match does not skip
ExactMatchesOn(column, levels) ==
    {i \in 1..Len(levels) :
        /\ is_exact_match(levels[i])
        /\ Len(exact_match_colnames(levels[i])) = 1
        /\ exact_match_colnames(levels[i])[1] = column}

Min(S) == CHOOSE i \in S : \A j \in S : i <= j

\* _u_probability_corresponding_to_exact_match: the u of the first level, in
\* list order, that is an exact match on the tf column alone
u_probability_corresponding_to_exact_match(lv, levels) ==
    LET found == ExactMatchesOn(lv.tf_adjustment_column, levels)
    IN  IF found = {}
        THEN [raised |-> TRUE, error |-> "ValueError", value |-> None]
        ELSE [raised |-> FALSE, error |-> "",
              value |-> u_probability(levels[Min(found)])]

\* WHEN gamma = value then cast(1 as float8)
NoAdjustment(lv) ==
    [raised |-> FALSE, error |-> "", lookup |-> FALSE,
     when_gamma |-> lv.comparison_vector_value, kind |-> "one",
     u_prob_exact_match |-> None, divisor |-> "",
     tf_minimum_u_value |-> lv.tf_minimum_u_value,
     tf_adjustment_weight |-> lv.tf_adjustment_weight]

\* mutant: the divisor is never clamped below by tf_minimum_u_value
Adjustment_never_clamped(lv, levels) ==
    LET u_prob_exact_match == u_probability_corresponding_to_exact_match(lv, levels)
    IN  [raised |-> u_prob_exact_match.raised, error |-> u_prob_exact_match.error,
         lookup |-> TRUE,
         when_gamma |-> lv.comparison_vector_value, kind |-> "pow",
         u_prob_exact_match |-> u_prob_exact_match.value,
         divisor |-> "greater",
         tf_minimum_u_value |-> lv.tf_minimum_u_value,
         tf_adjustment_weight |-> lv.tf_adjustment_weight]

\* WHEN gamma = value then (CASE WHEN coalesce(tf_l, tf_r) is not null THEN
\* POW(u_prob_exact_match / divisor, weight) ELSE 1 END), or the lookup's error
Adjustment(lv, levels) ==
    LET u_prob_exact_match == u_probability_corresponding_to_exact_match(lv, levels)
    IN  [raised |-> u_prob_exact_match.raised, error |-> u_prob_exact_match.error,
         lookup |-> TRUE,
         when_gamma |-> lv.comparison_vector_value, kind |-> "pow",
         u_prob_exact_match |-> u_prob_exact_match.value,
         divisor |-> IF lv.tf_minimum_u_value.n = 0 THEN "greater" ELSE "clamped",
         tf_minimum_u_value |-> lv.tf_minimum_u_value,
         tf_adjustment_weight |-> lv.tf_adjustment_weight]

\* mutant: the exact match level is looked up before the no-op cases are tested
tf_adjustment_sql_lookup_first(lv, levels) ==
    IF Adjustment(lv, levels).raised THEN Adjustment(lv, levels)
    ELSE IF lv.comparison_vector_value = -1 THEN NoAdjustment(lv)
    ELSE IF ~has_tf_adjustments(lv) THEN NoAdjustment(lv)
    ELSE IF lv.tf_adjustment_weight.n = 0 THEN NoAdjustment(lv)
    ELSE IF is_else_level(lv) THEN NoAdjustment(lv)
    ELSE Adjustment(lv, levels)

\* _tf_adjustment_sql
tf_adjustment_sql(lv, levels) ==
    IF lv.comparison_vector_value = -1 THEN NoAdjustment(lv)
    ELSE IF ~has_tf_adjustments(lv) THEN NoAdjustment(lv)
    ELSE IF lv.tf_adjustment_weight.n = 0 THEN NoAdjustment(lv)
    ELSE IF is_else_level(lv) THEN NoAdjustment(lv)
    ELSE Adjustment(lv, levels)

\* SQL coalesce, >= and > (a comparison with NULL is not true)
Coalesce(a, b) == IF a # SqlNull THEN a ELSE b
SqlGe(a, b) == a # SqlNull /\ b # SqlNull /\ ~Less(a, b)
SqlGt(a, b) == a # SqlNull /\ b # SqlNull /\ Less(b, a)

\* POW(x, k) for a whole number k
RECURSIVE PowInt(_, _)
PowInt(x, k) ==
    IF k = 0 THEN Num(1, 1)
    ELSE LET y == PowInt(x, k - 1) IN Num(x.n * y.n, x.d * y.d)

\* mutant: the first WHEN of the general form tests the minimum only
EvalDivisor_unordered(sql, tf_l, tf_r) ==
    LET coalesce_l_r == Coalesce(tf_l, tf_r)
        coalesce_r_l == Coalesce(tf_r, tf_l)
    IN  IF sql.divisor = "greater"
        THEN (IF SqlGe(coalesce_l_r, coalesce_r_l)
              THEN coalesce_l_r ELSE coalesce_r_l)
        ELSE (IF SqlGt(coalesce_l_r, sql.tf_minimum_u_value)
              THEN coalesce_l_r
              ELSE IF SqlGt(coalesce_r_l, sql.tf_minimum_u_value)
              THEN coalesce_r_l
              ELSE sql.tf_minimum_u_value)

\* the divisor CASE of the generated SQL
EvalDivisor(sql, tf_l, tf_r) ==
    LET coalesce_l_r == Coalesce(tf_l, tf_r)
        coalesce_r_l == Coalesce(tf_r, tf_l)
    IN  IF sql.divisor = "greater"
        THEN (IF SqlGe(coalesce_l_r, coalesce_r_l)
              THEN coalesce_l_r ELSE coalesce_r_l)
        ELSE (IF SqlGe(coalesce_l_r, coalesce_r_l)
                 /\ SqlGt(coalesce_l_r, sql.tf_minimum_u_value)
              THEN coalesce_l_r
              ELSE IF SqlGt(coalesce_r_l, sql.tf_minimum_u_value)
              THEN coalesce_r_l
              ELSE sql.tf_minimum_u_value)

\* the multiplier the generated SQL computes for a pair with term
\* frequencies tf_l and tf_r
EvalTfAdjustment(sql, tf_l, tf_r) ==
    IF sql.kind = "one" THEN Num(1, 1)
    ELSE IF Coalesce(tf_l, tf_r) # SqlNull
    THEN PowInt(Div(sql.u_prob_exact_match, EvalDivisor(sql, tf_l, tf_r)),
                sql.tf_adjustment_weight.n)
    ELSE Num(1, 1)

NoTfReturn == [op |-> "", raised |-> FALSE]

\* _tf_adjustment_sql has not been called
TfIdle ==
    /\ comparison_levels = <<>>
    /\ tf_ret = NoTfReturn

NoPriorReturn == [op |-> "", raised |-> FALSE, error |-> ""]

\* no copy of the Linker has been made
NoCopy ==
    [copied |-> FALSE, pipeline |-> "", link_type |-> "", level |-> <<>>,
     proportion_of_matches |-> None, em_training_sessions |-> <<>>]

\* no EM session has been constructed
NoSession ==
    [state |-> "", iteration |-> 0, fix_m_probabilities |-> FALSE,
     fix_u_probabilities |-> FALSE, m |-> None, u |-> None, returned |-> ""]

SessionIdle ==
    /\ new_linker = NoCopy
    /\ em_session = NoSession

\* a Linker that has trained nothing: Linker.__init__ leaves the history empty
PriorIdle ==
    /\ other_levels = <<>>
    /\ em_training_sessions = <<>>
    /\ proportion_of_matches = None
    /\ pm_ret = NoPriorReturn

\* the other parts' view of an unused level
LevelIdle ==
    /\ level = [is_null_level |-> FALSE, m_probability |-> None,
                u_probability |-> None, has_comparison |-> FALSE,
                num_levels |-> 0, comparison_vector_value |-> 0,
                m_warning_sent |-> FALSE, u_warning_sent |-> FALSE,
                trained_m_probabilities |-> <<>>, trained_u_probabilities |-> <<>>]
               @@ TfDefaults
    /\ lv_ret = NoLevelReturn
    /\ TfIdle
    /\ PriorIdle
    /\ SessionIdle

(***************************************************************************)
(* linker.py: the SQL pipeline and the caching facade, on the DuckDB       *)
(* backend.  A SQL text is the sequence of its parts: the WITH parts       *)
(* <<sql, output name>> of the earlier stages, then the last stage <<sql>>.*)
(* A table name is a sequence too: <<"t1">>, or <<"__splink__", text>> for *)
(* the name made of a text's hash.                                         *)
(***************************************************************************)
MaxQueue == 2
MaxCalls == 3

SqlAtoms == {"s1", "s2"}
OutputNames == {<<"t1">>, <<"t2">>}
\* the stages a caller enqueues: each statement with the table it declares
Stages == {[sql |-> "s1", output_table_name |-> <<"t1">>],
           [sql |-> "s2", output_table_name |-> <<"t2">>]}
InputTable == <<"df">>
NoHandle == [templated_name |-> <<>>, physical_name |-> <<>>]

\* SQLPipeline._generate_pipeline: the stages as one statement
generate_pipeline(q) ==
    [i \in 1..Len(q) |->
        IF i < Len(q) THEN <<q[i].sql, q[i].output_table_name>> ELSE <<q[i].sql>>]

\* the text of a statement passed to sql_to_dataframe directly
Statement(atom) == << <<atom>> >>

\* "__splink__" + sha256(sql).hexdigest()[:7]; distinct texts of the model
\* have distinct hashes
HashName(sql) == <<"__splink__", sql>>

\* the calls that may be watched: a statement under an output name
WatchedCalls == [sql : {Statement(a) : a \in SqlAtoms}, output_table_name : OutputNames]

\* the facade's state while one operation runs
LinkerState ==
    [tables |-> tables, queue |-> queue, n_backend |-> n_backend,
     n_calls |-> n_calls, w_stat |-> w_stat,
     raised |-> FALSE, served |-> "", sql |-> <<>>, handle |-> NoHandle]

table_exists_in_database(st, table_name) == table_name \in DOMAIN st.tables

df_as_obj(templated_name, physical_name) ==
    [templated_name |-> templated_name, physical_name |-> physical_name]

\* the watched call's record: every backend execution it causes, those that
\* succeed, and the physical tables it was handed
Watched(st, sql, templated_name, executed, ok, physical_name) ==
    IF watch = [sql |-> sql, output_table_name |-> templated_name]
    THEN [executions |-> st.w_stat.executions + (IF executed THEN 1 ELSE 0),
          successes |-> st.w_stat.successes + (IF executed /\ ok THEN 1 ELSE 0),
          physical_names |-> st.w_stat.physical_names
                               \cup (IF ok THEN {physical_name} ELSE {})]
    ELSE st.w_stat

\* mutant: CREATE OR REPLACE TABLE physical_name AS (sql)
execute_sql_replacing(st, sql, templated_name, physical_name, ok) ==
    [st EXCEPT
        !.n_backend = @ + 1,
        !.tables = IF ok
                   THEN [n \in DOMAIN st.tables \cup {physical_name} |->
                            IF n = physical_name THEN sql ELSE st.tables[n]]
                   ELSE st.tables,
        !.raised = ~ok,
        !.served = IF ok THEN "executed" ELSE "raised",
        !.handle = IF ok THEN df_as_obj(templated_name, physical_name) ELSE NoHandle,
        !.w_stat = Watched(st, sql, templated_name, TRUE, ok, physical_name)]

\* DuckDBInMemoryLinker.execute_sql: CREATE TABLE IF NOT EXISTS physical_name
\* AS (sql); ok = FALSE when the backend raises
execute_sql(st, sql, templated_name, physical_name, ok) ==
    [st EXCEPT
        !.n_backend = @ + 1,
        !.tables = IF ok /\ physical_name \notin DOMAIN st.tables
                   THEN st.tables @@ (physical_name :> sql)
                   ELSE st.tables,
        !.raised = ~ok,
        !.served = IF ok THEN "executed" ELSE "raised",
        !.handle = IF ok THEN df_as_obj(templated_name, physical_name) ELSE NoHandle,
        !.w_stat = Watched(st, sql, templated_name, TRUE, ok, physical_name)]

\* the lookups and the execution of sql_to_dataframe, given the name hashed
Materialise(st, sql, hash, output_tablename_templated, materialise_as_hash, ok) ==
    IF table_exists_in_database(st, output_tablename_templated)
    THEN [st EXCEPT
            !.served = "logical name",
            !.handle = df_as_obj(output_tablename_templated,
                                 output_tablename_templated),
            !.w_stat = Watched(st, sql, output_tablename_templated, FALSE, TRUE,
                               output_tablename_templated)]
    ELSE IF table_exists_in_database(st, hash)
    THEN [st EXCEPT
            !.served = "hash",
            !.handle = df_as_obj(output_tablename_templated, hash),
            !.w_stat = Watched(st, sql, output_tablename_templated, FALSE, TRUE,
                               hash)]
    ELSE IF materialise_as_hash
    THEN execute_sql(st, sql, output_tablename_templated, hash, ok)
    ELSE execute_sql(st, sql, output_tablename_templated,
                     output_tablename_templated, ok)

\* mutant: the existence of the hash-named table is not looked up
sql_to_dataframe_no_hash_lookup(st0, sql, output_tablename_templated, materialise_as_hash, ok) ==
    LET st == [st0 EXCEPT !.queue = <<>>, !.n_calls = @ + 1, !.sql = sql]
    IN  IF table_exists_in_database(st, output_tablename_templated)
        THEN Materialise(st, sql, HashName(sql), output_tablename_templated,
                         materialise_as_hash, ok)
        ELSE IF materialise_as_hash
        THEN execute_sql(st, sql, output_tablename_templated, HashName(sql), ok)
        ELSE execute_sql(st, sql, output_tablename_templated,
                         output_tablename_templated, ok)

\* mutant: the hash is taken of the output name instead of the SQL text
sql_to_dataframe_hash_of_name(st0, sql, output_tablename_templated, materialise_as_hash, ok) ==
    Materialise([st0 EXCEPT !.queue = <<>>, !.n_calls = @ + 1, !.sql = sql],
                sql, HashName(output_tablename_templated),
                output_tablename_templated, materialise_as_hash, ok)

\* mutant: the pipeline is reset after the work, so not when the backend raises
sql_to_dataframe_reset_last(st0, sql, output_tablename_templated, materialise_as_hash, ok) ==
    LET st == Materialise([st0 EXCEPT !.n_calls = @ + 1, !.sql = sql],
                          sql, HashName(sql), output_tablename_templated,
                          materialise_as_hash, ok)
    IN  IF st.raised THEN st ELSE [st EXCEPT !.queue = <<>>]

\* Linker.sql_to_dataframe: pipeline.reset(), then the table of the output name
\* if there is one, else the table named by the text's hash if there is one,
\* else the backend
sql_to_dataframe(st0, sql, output_tablename_templated, materialise_as_hash, ok) ==
    Materialise([st0 EXCEPT !.queue = <<>>, !.n_calls = @ + 1, !.sql = sql],
                sql, HashName(sql), output_tablename_templated,
                materialise_as_hash, ok)

\* Linker.execute_sql_pipeline; queue[-1] of an empty queue raises IndexError
execute_sql_pipeline(st, materialise_as_hash, ok) ==
    IF Len(st.queue) = 0
    THEN [st EXCEPT !.raised = TRUE, !.served = "IndexError"]
    ELSE sql_to_dataframe(st, generate_pipeline(st.queue),
                          st.queue[Len(st.queue)].output_table_name,
                          materialise_as_hash, ok)

\* the variables after an operation that ended in state st
Commit(st, op) ==
    /\ tables' = st.tables
    /\ queue' = st.queue
    /\ n_backend' = st.n_backend
    /\ n_calls' = st.n_calls
    /\ w_stat' = st.w_stat
    /\ ret' = [op |-> op, sql |-> st.sql, served |-> st.served,
               raised |-> st.raised, handle |-> st.handle]
    /\ UNCHANGED watch

NoReturn ==
    [op |-> "", sql |-> <<>>, served |-> "", raised |-> FALSE, handle |-> NoHandle]

\* the other parts' view of an unused Linker
LinkerIdle ==
    /\ tables = (InputTable :> <<>>)
    /\ queue = <<>>
    /\ n_backend = 0
    /\ n_calls = 0
    /\ ret = NoReturn
    /\ watch = [sql |-> <<>>, output_table_name |-> <<>>]
    /\ w_stat = [executions |-> 0, successes |-> 0, physical_names |-> {}]
    /\ SessionIdle

\* Linker.__init__ on the DuckDB backend: the input table is registered, the
\* pipeline is empty
InitLinker ==
    /\ tables = (InputTable :> <<>>)
    /\ queue = <<>>
    /\ n_backend = 0
    /\ n_calls = 0
    /\ ret = NoReturn
    /\ watch \in WatchedCalls
    /\ w_stat = [executions |-> 0, successes |-> 0, physical_names |-> {}]
    /\ BlockingIdle
    /\ LevelIdle

\* Linker.enqueue_sql
EnqueueSql ==
    /\ Len(queue) < MaxQueue
    /\ \E stage \in Stages :
          /\ queue' = Append(queue, stage)
          /\ ret' = [NoReturn EXCEPT !.op = "enqueue_sql"]
    /\ UNCHANGED <<tables, n_backend, n_calls, watch, w_stat>>
    /\ UNCHANGED bvars
    /\ UNCHANGED cvars
    /\ UNCHANGED kvars

ExecuteSqlPipeline ==
    /\ n_calls < MaxCalls
    /\ \E materialise_as_hash \in BOOLEAN, ok \in BOOLEAN :
          Commit(execute_sql_pipeline(LinkerState, materialise_as_hash, ok),
                 "execute_sql_pipeline")
    /\ UNCHANGED bvars
    /\ UNCHANGED cvars
    /\ UNCHANGED kvars

SqlToDataframe ==
    /\ n_calls < MaxCalls
    /\ \E sql \in SqlAtoms, name \in OutputNames,
          materialise_as_hash \in BOOLEAN, ok \in BOOLEAN :
          Commit(sql_to_dataframe(LinkerState, Statement(sql), name,
                                  materialise_as_hash, ok),
                 "sql_to_dataframe")
    /\ UNCHANGED bvars
    /\ UNCHANGED cvars
    /\ UNCHANGED kvars

NextLinker == EnqueueSql \/ ExecuteSqlPipeline \/ SqlToDataframe

SpecLinker == InitLinker /\ [][NextLinker]_vars

InitBlocking ==
    /\ \E lt \in LinkTypes, rl \in RuleLists, has \in BOOLEAN :
          /\ (~has => rl = <<>>)
          /\ settings = [link_type |-> lt, has_blocking_rules |-> has,
                         blocking_rules |-> rl]
    /\ \E K \in SUBSET Keys :
          /\ Cardinality(K) <= MaxRecords
          /\ df \in [K -> Cols]
    /\ b_pc = "start"
    /\ df_comparison = [raised |-> FALSE, sqls |-> <<>>, rows |-> {}]
    /\ LinkerIdle
    /\ LevelIdle

BlockUsingRules ==
    /\ b_pc = "start"
    /\ df_comparison' = block_using_rules
    /\ b_pc' = "done"
    /\ UNCHANGED <<settings, df>>
    /\ UNCHANGED lvars
    /\ UNCHANGED kvars
    /\ UNCHANGED cvars

NextBlocking == BlockUsingRules

SpecBlocking == InitBlocking /\ [][NextBlocking]_vars

\* ComparisonLevel.__init__, and the level's attachment to a Comparison of
\* num_levels levels (or to none)
InitLevel ==
    /\ \E is_null_level \in BOOLEAN, m \in StoredProbabilities,
          u \in StoredProbabilities, has_comparison \in BOOLEAN,
          num_levels \in 2..MaxLevels :
          \E value \in VectorValues(num_levels, is_null_level) :
              /\ (~has_comparison => num_levels = 2 /\ value <= 0)
              /\ level = [is_null_level |-> is_null_level,
                          m_probability |-> m, u_probability |-> u,
                          has_comparison |-> has_comparison,
                          num_levels |-> IF has_comparison THEN num_levels ELSE 0,
                          comparison_vector_value |->
                              IF has_comparison THEN value ELSE 0,
                          m_warning_sent |-> FALSE, u_warning_sent |-> FALSE,
                          trained_m_probabilities |-> <<>>,
                          trained_u_probabilities |-> <<>>]
                         @@ TfDefaults
    /\ lv_ret = NoLevelReturn
    /\ TfIdle
    /\ PriorIdle
    /\ BlockingIdle
    /\ LinkerIdle

SetMProbability ==
    /\ \E value \in {LEVEL_NOT_OBSERVED_TEXT} \cup FixedProbabilities :
          LET r == set_m_probability(level, value)
          IN  /\ level' = r.level
              /\ lv_ret' = [op |-> "m_probability", raised |-> r.raised,
                            error |-> r.error, warned |-> r.warned]
    /\ UNCHANGED bvars
    /\ UNCHANGED lvars
    /\ UNCHANGED kvars
    /\ UNCHANGED tvars
    /\ UNCHANGED pvars

SetUProbability ==
    /\ \E value \in {LEVEL_NOT_OBSERVED_TEXT} \cup FixedProbabilities :
          LET r == set_u_probability(level, value)
          IN  /\ level' = r.level
              /\ lv_ret' = [op |-> "u_probability", raised |-> r.raised,
                            error |-> r.error, warned |-> r.warned]
    /\ UNCHANGED bvars
    /\ UNCHANGED lvars
    /\ UNCHANGED kvars
    /\ UNCHANGED tvars
    /\ UNCHANGED pvars

AddTrainedMProbability ==
    /\ Len(level.trained_m_probabilities) < MaxTrained
    /\ \E val \in TrainedValues :
          level' = add_trained_m_probability(level, val)
    /\ lv_ret' = [NoLevelReturn EXCEPT !.op = "_add_trained_m_probability"]
    /\ UNCHANGED bvars
    /\ UNCHANGED lvars
    /\ UNCHANGED kvars
    /\ UNCHANGED tvars
    /\ UNCHANGED pvars

AddTrainedUProbability ==
    /\ Len(level.trained_u_probabilities) < MaxTrained
    /\ \E val \in TrainedValues :
          level' = add_trained_u_probability(level, val)
    /\ lv_ret' = [NoLevelReturn EXCEPT !.op = "_add_trained_u_probability"]
    /\ UNCHANGED bvars
    /\ UNCHANGED lvars
    /\ UNCHANGED kvars
    /\ UNCHANGED tvars
    /\ UNCHANGED pvars

PopulateMUFromTrainedValues ==
    /\ LET r == populate_m_u_from_trained_values(level)
       IN  /\ level' = r.level
           /\ lv_ret' = [op |-> "populate_m_u_from_trained_values",
                         raised |-> r.raised, error |-> r.error,
                         warned |-> r.warned]
    /\ UNCHANGED bvars
    /\ UNCHANGED lvars
    /\ UNCHANGED kvars
    /\ UNCHANGED tvars
    /\ UNCHANGED pvars

\* as_dict reads the level and changes nothing
AsDict ==
    /\ level' = level
    /\ lv_ret' = [op |-> "as_dict", raised |-> FALSE, error |-> "",
                  warned |-> FALSE, dict |-> as_dict(level)]
    /\ UNCHANGED bvars
    /\ UNCHANGED lvars
    /\ UNCHANGED kvars
    /\ UNCHANGED tvars
    /\ UNCHANGED pvars

NextLevel ==
    \/ SetMProbability
    \/ SetUProbability
    \/ AddTrainedMProbability
    \/ AddTrainedUProbability
    \/ PopulateMUFromTrainedValues
    \/ AsDict

SpecLevel == InitLevel /\ [][NextLevel]_vars

(***************************************************************************)
(* The match prior, backed out of the retained EM sessions.  A session is  *)
(* [proportion_of_matches, reverse_levels]: the proportion its own         *)
(* settings were trained to, and the levels it reverses, each the position *)
(* of a level among the current settings' levels.                          *)
(***************************************************************************)
\* the levels of the current settings
Levels == <<level>> \o other_levels

Sub(a, b) == Num(a.n * b.d - b.n * a.d, a.d * b.d)

\* misc.prob_to_bayes_factor
prob_to_bayes_factor(prob) == Div(prob, Sub(Num(1, 1), prob))

\* misc.bayes_factor_to_prob
bayes_factor_to_prob(bf) == Div(bf, Add(Num(1, 1), bf))

\* _is_trained
is_trained(lv) == m_is_trained(lv) /\ u_is_trained(lv)

Raise(error) == [raised |-> TRUE, error |-> error, value |-> None]
Return(value) == [raised |-> FALSE, error |-> "", value |-> value]

\* Python's true division of two floats-or-None
TrueDiv(a, b) ==
    IF a = None \/ b = None THEN Raise("TypeError")
    ELSE IF b.kind = "inf" THEN Return(Num(0, 1))
    ELSE IF b.n = 0 THEN Raise("ZeroDivisionError")
    ELSE Return(Div(a, b))

\* the value of a property whose evaluation may have raised
Evaluated(value) ==
    IF value = Error THEN Raise("Exception") ELSE Return(value)

\* the one element of a singleton: The({e(x) : x \in {v}}) is e with x naming
\* the value of v, as an assignment x = v followed by e
The(S) == CHOOSE x \in S : TRUE

\* mutant: the current Bayes factor is used for trained levels too
reversed_bayes_factor_current(cl) ==
    Evaluated(bayes_factor(cl))

\* lines 256-260: the Bayes factor a reversed level contributes
reversed_bayes_factor(cl) ==
    IF is_trained(cl) THEN TrueDiv(trained_m_median(cl), trained_u_median(cl))
    ELSE Evaluated(bayes_factor(cl))

\* lines 245-262: the loop over a session's reversed levels, from the k-th on
RECURSIVE divide_by_reverse_levels(_, _, _, _)
divide_by_reverse_levels(training_lambda_bf, reverse_levels, k, levels) ==
    IF k > Len(reverse_levels) THEN Return(training_lambda_bf)
    ELSE The({IF bf.raised THEN bf
              ELSE The({IF q.raised THEN q
                        ELSE divide_by_reverse_levels(
                                 q.value, reverse_levels, k + 1, levels) :
                        q \in {TrueDiv(training_lambda_bf, bf.value)}}) :
              bf \in {reversed_bayes_factor(levels[reverse_levels[k]])}})

\* lines 238-263: one session's estimate of the proportion of matches
session_estimate(em_training_session, levels) ==
    The({IF q.raised THEN q ELSE Return(bayes_factor_to_prob(q.value)) :
         q \in {divide_by_reverse_levels(
                    prob_to_bayes_factor(em_training_session.proportion_of_matches),
                    em_training_session.reverse_levels, 1, levels)}})

\* lines 236-264: the loop over the sessions, from the k-th on
RECURSIVE prop_matches_estimates(_, _, _, _)
prop_matches_estimates(estimates, sessions, k, levels) ==
    IF k > Len(sessions) THEN Return(estimates)
    ELSE The({IF p.raised THEN p
              ELSE prop_matches_estimates(Append(estimates, p.value),
                                          sessions, k + 1, levels) :
              p \in {session_estimate(sessions[k], levels)}})

\* Linker.populate_proportion_of_matches_from_trained_values: the value of
\* settings_obj._proportion_of_matches afterwards, and whether the call raised
populate_proportion_of_matches_from_trained_values(sessions, levels, current) ==
    The({IF estimates.raised THEN [estimates EXCEPT !.value = current]
         ELSE IF Len(sessions) = 0
              THEN [raised |-> TRUE, error |-> "UnboundLocalError",
                    value |-> current]
         ELSE Return(median(estimates.value)) :
         estimates \in {prop_matches_estimates(<<>>, sessions, 1, levels)}})

(***************************************************************************)
(* Training sessions, as one level sees them: an EM session appends its    *)
(* estimates to the level's trained histories (unless the kind is fixed    *)
(* for the session) and the Linker then populates m and u from them.       *)
(***************************************************************************)
MaxSessions == 3

MEstimates == {LEVEL_NOT_OBSERVED_TEXT, Num(4, 5), Num(9, 10), Num(19, 20)}
UEstimates == {Num(1, 4)}

\* the proportions of matches a session's own settings are trained to
TrainedProportions == {Num(1, 2), Num(1, 5)}
SessionProportion == Num(1, 2)

\* the choices of reversed levels among n levels, in the settings' order
ReverseLevels(n) ==
    {s \in UNION {[1..k -> 1..n] : k \in 0..n} :
        \A i \in 1..Len(s), j \in 1..Len(s) : i < j => s[i] < s[j]}

\* EMTrainingSession.train, for one level: the session's estimates are
\* appended to the histories of the kinds it does not fix
em_training_session_train(lv, fix_m_probabilities, fix_u_probabilities, m, u) ==
    LET with_m == IF fix_m_probabilities THEN lv
                  ELSE add_trained_m_probability(lv, m)
    IN  IF fix_u_probabilities THEN with_m
        ELSE add_trained_u_probability(with_m, u)

\* a level of a two-level comparison, with m and u fixed by the caller or
\* left unset
InitTraining ==
    /\ \E is_null_level \in BOOLEAN, m \in {None, Num(1, 4)},
          u \in {None, Num(1, 4)} :
          \E value \in VectorValues(2, is_null_level) :
              level = [is_null_level |-> is_null_level,
                       m_probability |-> m, u_probability |-> u,
                       has_comparison |-> TRUE, num_levels |-> 2,
                       comparison_vector_value |-> value,
                       m_warning_sent |-> FALSE, u_warning_sent |-> FALSE,
                       trained_m_probabilities |-> <<>>,
                       trained_u_probabilities |-> <<>>]
                      @@ TfDefaults
    /\ lv_ret = NoLevelReturn
    /\ other_levels = <<>>
    /\ em_training_sessions = <<>>
    /\ proportion_of_matches = SessionProportion
    /\ pm_ret = NoPriorReturn
    /\ TfIdle
    /\ BlockingIdle
    /\ LinkerIdle

\* Linker.train_m_using_expectation_maximisation, called with the default
\* comparison_levels_to_reverse_blocking_rule (no level is reversed): the
\* session trains and is retained, then populate_m_u_from_trained_values, then
\* populate_proportion_of_matches_from_trained_values
TrainMUsingExpectationMaximisation ==
    /\ Len(em_training_sessions) < MaxSessions
    /\ \E fix_m_probabilities \in BOOLEAN, fix_u_probabilities \in BOOLEAN,
          m \in MEstimates, u \in UEstimates :
          \E r \in {populate_m_u_from_trained_values(em_training_session_train(
                         level, fix_m_probabilities, fix_u_probabilities, m, u))} :
          \E sessions \in {Append(em_training_sessions,
                              [proportion_of_matches |-> SessionProportion,
                               reverse_levels |-> <<>>])} :
          \E pm \in {populate_proportion_of_matches_from_trained_values(
                         sessions, <<r.level>>, proportion_of_matches)} :
              /\ level' = r.level
              /\ em_training_sessions' = sessions
              /\ proportion_of_matches' =
                     IF r.raised THEN proportion_of_matches ELSE pm.value
              /\ pm_ret' =
                     IF r.raised THEN NoPriorReturn
                     ELSE [op |-> "populate_proportion_of_matches_from_trained_values",
                           raised |-> pm.raised, error |-> pm.error]
              /\ lv_ret' = [op |-> "train_m_using_expectation_maximisation",
                            raised |-> r.raised \/ pm.raised,
                            error |-> IF r.raised THEN r.error ELSE pm.error,
                            warned |-> r.warned]
    /\ UNCHANGED other_levels
    /\ UNCHANGED bvars
    /\ UNCHANGED lvars
    /\ UNCHANGED kvars
    /\ UNCHANGED tvars

NextTraining == TrainMUsingExpectationMaximisation

SpecTraining == InitTraining /\ [][NextTraining]_vars

(***************************************************************************)
(* _tf_adjustment_sql, called on a level with the levels of its comparison. *)
(***************************************************************************)
MaxOthers == 2

Conditions ==
    {Else, Condition(<<OtherClause>>), Condition(<<"first_name">>),
     Condition(<<"surname">>), Condition(<<"first_name", "surname">>)}

TfWeights == {Num(0, 1), Num(1, 1), Num(2, 1)}
TfMinimumUValues == {Num(0, 1), Num(1, 4)}
TermFrequencies == {SqlNull, Num(1, 8), Num(1, 2)}

\* a level of the comparison with condition c and u probability u
LevelWith(is_null_level, value, c, u) ==
    [is_null_level |-> is_null_level, m_probability |-> None,
     u_probability |-> u, has_comparison |-> TRUE, num_levels |-> 2,
     comparison_vector_value |-> value,
     m_warning_sent |-> FALSE, u_warning_sent |-> FALSE,
     trained_m_probabilities |-> <<>>, trained_u_probabilities |-> <<>>,
     sql_condition |-> c, tf_adjustment_column |-> NoColumn,
     tf_adjustment_weight |-> Num(1, 1), tf_minimum_u_value |-> Num(0, 1)]

OtherLevels ==
    {LevelWith(FALSE, 0, c, u) : c \in Conditions, u \in {Num(1, 4), Num(1, 2)}}

InitTf ==
    /\ \E is_null_level \in BOOLEAN :
       \E value \in VectorValues(2, is_null_level),
          c \in {Else, Condition(<<OtherClause>>), Condition(<<"first_name">>)},
          column \in {NoColumn, "first_name"},
          weight \in TfWeights, minimum \in TfMinimumUValues :
          level = [LevelWith(is_null_level, value, c, Num(1, 2)) EXCEPT
                      !.tf_adjustment_column = column,
                      !.tf_adjustment_weight = weight,
                      !.tf_minimum_u_value = minimum]
    /\ \E k \in 0..MaxOthers, first \in BOOLEAN :
       \E others \in [1..k -> OtherLevels] :
          comparison_levels = IF first THEN <<level>> \o others
                              ELSE others \o <<level>>
    /\ lv_ret = NoLevelReturn
    /\ tf_ret = NoTfReturn
    /\ PriorIdle
    /\ BlockingIdle
    /\ LinkerIdle

TfAdjustmentSql ==
    /\ tf_ret' = [op |-> "_tf_adjustment_sql",
                  raised |-> tf_adjustment_sql(level, comparison_levels).raised,
                  sql |-> tf_adjustment_sql(level, comparison_levels)]
    /\ UNCHANGED <<level, lv_ret, comparison_levels>>
    /\ UNCHANGED pvars
    /\ UNCHANGED bvars
    /\ UNCHANGED lvars
    /\ UNCHANGED kvars

NextTf == TfAdjustmentSql

SpecTf == InitTf /\ [][NextTf]_vars

(***************************************************************************)
(* populate_proportion_of_matches_from_trained_values on a Linker that     *)
(* retains some EM sessions, its settings holding two levels.              *)
(***************************************************************************)
MaxRetained == 2

\* a non-null level of a two-level comparison: m and u as stored, and whether
\* sessions have contributed estimates (0.8 for m, 0.25 for u) to its histories
PriorLevel(m, u, estimated) ==
    LET lv == [LevelWith(FALSE, 1, Condition(<<OtherClause>>), u)
                  EXCEPT !.m_probability = m]
    IN  IF estimated
        THEN add_trained_u_probability(
                 add_trained_m_probability(lv, Num(4, 5)), Num(1, 4))
        ELSE lv

PriorLevels ==
    {PriorLevel(m, u, estimated) :
        m \in {None, Num(1, 2)}, u \in {Num(0, 1), Num(1, 4)},
        estimated \in BOOLEAN}

RetainedSessions ==
    UNION {[1..k -> [proportion_of_matches : TrainedProportions,
                     reverse_levels : ReverseLevels(2)]] : k \in 0..MaxRetained}

InitPrior ==
    /\ level \in PriorLevels
    /\ \E cl \in PriorLevels : other_levels = <<cl>>
    /\ em_training_sessions \in RetainedSessions
    /\ proportion_of_matches = SessionProportion
    /\ pm_ret = NoPriorReturn
    /\ lv_ret = NoLevelReturn
    /\ TfIdle
    /\ BlockingIdle
    /\ LinkerIdle

\* Linker.populate_proportion_of_matches_from_trained_values
PopulateProportionOfMatchesFromTrainedValues ==
    /\ \E pm \in {populate_proportion_of_matches_from_trained_values(
                     em_training_sessions, Levels, proportion_of_matches)} :
          /\ proportion_of_matches' = pm.value
          /\ pm_ret' = [op |-> "populate_proportion_of_matches_from_trained_values",
                        raised |-> pm.raised, error |-> pm.error]
    /\ UNCHANGED <<level, lv_ret, other_levels, em_training_sessions>>
    /\ UNCHANGED tvars
    /\ UNCHANGED bvars
    /\ UNCHANGED lvars
    /\ UNCHANGED kvars

NextPrior == PopulateProportionOfMatchesFromTrainedValues

SpecPrior == InitPrior /\ [][NextPrior]_vars

(***************************************************************************)
(* linker.py: predict and incremental_link.  The SQL of each stage is      *)
(* generated outside linker.py; a stage is its text, one atom per          *)
(* generator, and the output name the Linker gives it.                     *)
(***************************************************************************)
RightTable == <<"df_right">>
DfConcat == <<"__splink__df_concat">>
DfConcatWithTf == <<"__splink__df_concat_with_tf">>
DfBlocked == <<"__splink__df_blocked">>
DfComparisonVectors == <<"__splink__df_comparison_vectors">>
DfPredict == <<"__splink__df_predict">>
NewRecordsTable == <<"new_records">>
\* f"__splink__{templated_name}_with_tf" and new_records_table + "_with_tf"
WithTf(prefix, name) == <<prefix, name[1], "_with_tf">>

\* the most backend calls one operation makes: the flush of the concatenation,
\* one split per input table, the flush of the predictions
BackendCalls == 4

\* self.input_dfs.values(), in the order the tables were given
input_dfs(st) ==
    IF RightTable \in DOMAIN st.tables THEN <<InputTable, RightTable>>
    ELSE <<InputTable>>

\* whether the next backend call of the operation that began with `first`
\* calls made succeeds, when the fail-th call of the operation raises
Ok(st, first, fail) == st.n_backend + 1 - first # fail

\* Linker.enqueue_sql on the state of a running operation
enqueue_sql(st, sql, output_table_name) ==
    [st EXCEPT !.queue = Append(@, [sql |-> sql,
                                    output_table_name |-> output_table_name])]

\* term_frequencies.link_only_split(df.physical_name, settings_obj)
link_only_split(physical_name) ==
    Statement(IF physical_name = InputTable THEN "link_only_split df"
              ELSE "link_only_split df_right")

\* the loop of _initialise_df_concat_with_tf over input_dfs.values(); an
\* exception ends it
RECURSIVE link_only_splits(_, _, _, _, _)
link_only_splits(st, dfs, k, first, fail) ==
    IF k > Len(dfs) \/ st.raised THEN st
    ELSE link_only_splits(
             sql_to_dataframe(st, link_only_split(dfs[k]),
                              WithTf("__splink__", dfs[k]), FALSE,
                              Ok(st, first, fail)),
             dfs, k + 1, first, fail)

\* Linker._initialise_df_concat_with_tf: materialise and link_only each flush
\* the two stages, once between them
initialise_df_concat_with_tf(st0, link_type, materialise, first, fail) ==
    IF table_exists_in_database(st0, DfConcatWithTf) THEN st0
    ELSE The({ IF ~(materialise \/ link_type = "link_only") THEN enq
               ELSE The({ IF flushed.raised \/ link_type # "link_only"
                          THEN flushed
                          ELSE link_only_splits(flushed, input_dfs(flushed), 1,
                                                first, fail)
                          : flushed \in {execute_sql_pipeline(
                                            enq, FALSE, Ok(enq, first, fail))} })
               : enq \in {enqueue_sql(
                             enqueue_sql(st0, "vertically_concatente", DfConcat),
                             "term_frequencies", DfConcatWithTf)} })

\* the stages predict and incremental_link enqueue after their first step
prediction_stages(st, blocking_sql) ==
    enqueue_sql(
        enqueue_sql(
            enqueue_sql(st, blocking_sql, DfBlocked),
            "compute_comparison_vector_values", DfComparisonVectors),
        "predict", DfPredict)

\* Linker.predict
predict(st0, link_type, fail) ==
    The({ IF st.raised THEN st
          ELSE The({ execute_sql_pipeline(q, TRUE, Ok(q, st0.n_backend, fail))
                     : q \in {prediction_stages(st, "block_using_rules")} })
          : st \in {initialise_df_concat_with_tf(st0, link_type, FALSE,
                                                 st0.n_backend, fail)} })

\* Linker.incremental_link: the state it ends in and the link type it leaves
\* in the settings; the last assignment is not reached when the flush raises
incremental_link(st0, link_type_old, new_records_table, fail) ==
    The({ [st |-> st,
           link_type |-> IF st.raised THEN "link_only" ELSE link_type_old]
          : st \in {execute_sql_pipeline(
                       prediction_stages(
                           enqueue_sql(st0, "join_tf_to_input_df",
                                       WithTf("", new_records_table)),
                           "block_using_rules incremental"),
                       TRUE, Ok(st0, st0.n_backend, fail))} })

\* a Linker of any link type over one or two input tables
InitLinking ==
    /\ \E link_type \in LinkTypes :
          settings = [link_type |-> link_type, has_blocking_rules |-> FALSE,
                      blocking_rules |-> <<>>]
    /\ df = <<>>
    /\ b_pc = "idle"
    /\ df_comparison = [raised |-> FALSE, sqls |-> <<>>, rows |-> {}]
    /\ tables \in {(InputTable :> <<>>),
                   (InputTable :> <<>>) @@ (RightTable :> <<>>)}
    /\ queue = <<>>
    /\ n_backend = 0
    /\ n_calls = 0
    /\ ret = NoReturn
    /\ watch = [sql |-> <<>>, output_table_name |-> <<>>]
    /\ w_stat = [executions |-> 0, successes |-> 0, physical_names |-> {}]
    /\ LevelIdle

\* _initialise_df_concat_with_tf() as the training methods call it
InitialiseDfConcatWithTf ==
    /\ n_calls < MaxCalls
    /\ \E fail \in 0..BackendCalls :
          Commit(initialise_df_concat_with_tf(LinkerState, settings.link_type,
                                              TRUE, n_backend, fail),
                 "_initialise_df_concat_with_tf")
    /\ UNCHANGED bvars
    /\ UNCHANGED cvars
    /\ UNCHANGED kvars

Predict ==
    /\ n_calls < MaxCalls
    /\ \E fail \in 0..BackendCalls :
          Commit(predict(LinkerState, settings.link_type, fail), "predict")
    /\ UNCHANGED bvars
    /\ UNCHANGED cvars
    /\ UNCHANGED kvars

IncrementalLink ==
    /\ n_calls < MaxCalls
    /\ \E fail \in 0..BackendCalls :
          \E r \in {incremental_link(LinkerState, settings.link_type,
                                     NewRecordsTable, fail)} :
              /\ Commit(r.st, "incremental_link")
              /\ settings' = [settings EXCEPT !.link_type = r.link_type]
    /\ UNCHANGED <<df, b_pc, df_comparison>>
    /\ UNCHANGED cvars
    /\ UNCHANGED kvars

NextLinking == InitialiseDfConcatWithTf \/ Predict \/ IncrementalLink

SpecLinking == InitLinking /\ [][NextLinking]_vars

(***************************************************************************)
(* linker.py: __deepcopy__.  copy(self) gives the new Linker the objects   *)
(* the attributes of self refer to; the session list and the settings are  *)
(* then replaced.  The record holds what the new Linker owns; its pipeline *)
(* attribute names the SQLPipeline object it refers to.                    *)
(***************************************************************************)
\* Linker.__deepcopy__
deepcopy(self_pipeline, link_type, lv, proportion) ==
    [copied |-> TRUE,
     pipeline |-> self_pipeline,
     link_type |-> link_type,
     level |-> lv,
     proportion_of_matches |-> proportion,
     em_training_sessions |-> <<>>]

\* the sessions a Linker holds when it is copied
CopiedSessions ==
    {<<>>, <<[proportion_of_matches |-> SessionProportion, reverse_levels |-> <<>>]>>}

\* a Linker with or without a retained session and stages in its pipeline
InitCopy ==
    /\ \E link_type \in LinkTypes :
          settings = [link_type |-> link_type, has_blocking_rules |-> FALSE,
                      blocking_rules |-> <<>>]
    /\ df = <<>>
    /\ b_pc = "idle"
    /\ df_comparison = [raised |-> FALSE, sqls |-> <<>>, rows |-> {}]
    /\ tables = (InputTable :> <<>>)
    /\ queue \in {<<>>} \cup {<<stage>> : stage \in Stages}
    /\ n_backend = 0
    /\ n_calls = 0
    /\ ret = NoReturn
    /\ watch = [sql |-> <<>>, output_table_name |-> <<>>]
    /\ w_stat = [executions |-> 0, successes |-> 0, physical_names |-> {}]
    /\ \E m \in {None, Num(1, 4)} :
          level = [is_null_level |-> FALSE,
                   m_probability |-> m, u_probability |-> None,
                   has_comparison |-> TRUE, num_levels |-> 2,
                   comparison_vector_value |-> 1,
                   m_warning_sent |-> FALSE, u_warning_sent |-> FALSE,
                   trained_m_probabilities |-> <<>>,
                   trained_u_probabilities |-> <<>>]
                  @@ TfDefaults
    /\ lv_ret = NoLevelReturn
    /\ TfIdle
    /\ other_levels = <<>>
    /\ em_training_sessions \in CopiedSessions
    /\ proportion_of_matches = SessionProportion
    /\ pm_ret = NoPriorReturn
    /\ new_linker = NoCopy
    /\ em_session = NoSession

\* deepcopy(linker)
Deepcopy ==
    /\ new_linker' = deepcopy("self.pipeline", settings.link_type, level,
                              proportion_of_matches)
    /\ UNCHANGED em_session
    /\ UNCHANGED bvars
    /\ UNCHANGED lvars
    /\ UNCHANGED cvars

\* a level of the copy's settings is given an m probability and a trained value
CopySetLevel ==
    /\ new_linker.copied
    /\ Len(new_linker.level.trained_m_probabilities) < MaxTrained
    /\ \E value \in {Num(1, 2)} :
          new_linker' = [new_linker EXCEPT !.level =
              add_trained_m_probability(
                  set_m_probability(new_linker.level, value).level, value)]
    /\ UNCHANGED em_session
    /\ UNCHANGED bvars
    /\ UNCHANGED lvars
    /\ UNCHANGED cvars

\* the copy's settings are given a match prior and a link type
CopySetSettings ==
    /\ new_linker.copied
    /\ \E proportion \in TrainedProportions, link_type \in LinkTypes :
          new_linker' = [new_linker EXCEPT
              !.proportion_of_matches = proportion, !.link_type = link_type]
    /\ UNCHANGED em_session
    /\ UNCHANGED bvars
    /\ UNCHANGED lvars
    /\ UNCHANGED cvars

\* a session is retained by the copy
CopyRetainSession ==
    /\ new_linker.copied
    /\ Len(new_linker.em_training_sessions) < MaxRetained
    /\ new_linker' = [new_linker EXCEPT !.em_training_sessions =
          Append(@, [proportion_of_matches |-> new_linker.proportion_of_matches,
                     reverse_levels |-> <<>>])]
    /\ UNCHANGED em_session
    /\ UNCHANGED bvars
    /\ UNCHANGED lvars
    /\ UNCHANGED cvars

\* new_linker.enqueue_sql: self.pipeline.enqueue_sql on the SQLPipeline the
\* copy's pipeline attribute refers to
CopyEnqueueSql ==
    /\ new_linker.copied
    /\ new_linker.pipeline = "self.pipeline"
    /\ Len(queue) < MaxQueue
    /\ \E stage \in Stages :
          queue' = enqueue_sql(LinkerState, stage.sql, stage.output_table_name).queue
    /\ UNCHANGED <<tables, n_backend, n_calls, ret, watch, w_stat>>
    /\ UNCHANGED kvars
    /\ UNCHANGED bvars
    /\ UNCHANGED cvars

NextCopy ==
    \/ Deepcopy
    \/ CopySetLevel
    \/ CopySetSettings
    \/ CopyRetainSession
    \/ CopyEnqueueSql

SpecCopy == InitCopy /\ [][NextCopy]_vars

(***************************************************************************)
(* The EM session step by step.  EMTrainingSession is outside linker.py:   *)
(* its states are Initialized, the E and M steps, Converged and            *)
(* MaxIterationsReached; whether an M step's largest change is below the   *)
(* threshold is the data's choice.                                         *)
(***************************************************************************)
MaxIterations == 2

EndStates == {"Converged", "MaxIterationsReached"}

\* EMTrainingSession(self, blocking_rule, fix_u_probabilities=...,
\* fix_m_probabilities=..., ...)
EMTrainingSession(fix_m_probabilities, fix_u_probabilities) ==
    [NoSession EXCEPT !.state = "Initialized",
                      !.fix_m_probabilities = fix_m_probabilities,
                      !.fix_u_probabilities = fix_u_probabilities]

\* the state after an M step that ended iteration number `iteration`
after_m_step(iteration, below_threshold) ==
    IF below_threshold THEN "Converged"
    ELSE IF iteration >= MaxIterations THEN "MaxIterationsReached"
    ELSE "MStep"

\* a Linker whose settings hold one level of a two-level comparison
InitEM ==
    /\ InitTraining
    /\ new_linker = NoCopy
    /\ em_session = NoSession

\* train_m_using_expectation_maximisation up to the construction of the
\* session; the previous call, if any, is over
NewSession ==
    /\ em_session.state = "" \/ em_session.returned # ""
    /\ Len(em_training_sessions) < MaxRetained
    /\ \E fix_m_probabilities \in BOOLEAN, fix_u_probabilities \in BOOLEAN :
          em_session' = EMTrainingSession(fix_m_probabilities, fix_u_probabilities)
    /\ UNCHANGED new_linker
    /\ UNCHANGED bvars
    /\ UNCHANGED lvars
    /\ UNCHANGED cvars

EStep ==
    /\ em_session.returned = ""
    /\ em_session.state \in {"Initialized", "MStep"}
    /\ em_session' = [em_session EXCEPT !.state = "EStep"]
    /\ UNCHANGED new_linker
    /\ UNCHANGED bvars
    /\ UNCHANGED lvars
    /\ UNCHANGED cvars

MStep ==
    /\ em_session.returned = ""
    /\ em_session.state = "EStep"
    /\ \E m \in MEstimates, u \in UEstimates, below_threshold \in BOOLEAN :
          em_session' = [em_session EXCEPT
              !.iteration = @ + 1,
              !.m = m,
              !.u = u,
              !.state = after_m_step(em_session.iteration + 1, below_threshold)]
    /\ UNCHANGED new_linker
    /\ UNCHANGED bvars
    /\ UNCHANGED lvars
    /\ UNCHANGED cvars

\* train() commits its estimates and returns; the Linker retains the session,
\* populates m and u and the match prior from the trained values and returns
\* the session, unless one of the two raises
TrainReturns ==
    /\ em_session.returned = ""
    /\ em_session.state \in EndStates
    /\ \E r \in {populate_m_u_from_trained_values(em_training_session_train(
                     level, em_session.fix_m_probabilities,
                     em_session.fix_u_probabilities, em_session.m, em_session.u))} :
       \E sessions \in {Append(em_training_sessions,
                           [proportion_of_matches |-> SessionProportion,
                            reverse_levels |-> <<>>])} :
       \E pm \in {populate_proportion_of_matches_from_trained_values(
                      sessions, <<r.level>>, proportion_of_matches)} :
           /\ level' = r.level
           /\ em_training_sessions' = sessions
           /\ proportion_of_matches' =
                  IF r.raised THEN proportion_of_matches ELSE pm.value
           /\ pm_ret' =
                  IF r.raised THEN NoPriorReturn
                  ELSE [op |-> "populate_proportion_of_matches_from_trained_values",
                        raised |-> pm.raised, error |-> pm.error]
           /\ lv_ret' = [op |-> "train_m_using_expectation_maximisation",
                         raised |-> r.raised \/ pm.raised,
                         error |-> IF r.raised THEN r.error ELSE pm.error,
                         warned |-> r.warned]
           /\ em_session' = [em_session EXCEPT !.returned =
                  IF r.raised \/ pm.raised THEN "raised" ELSE "session"]
    /\ UNCHANGED new_linker
    /\ UNCHANGED other_levels
    /\ UNCHANGED bvars
    /\ UNCHANGED lvars
    /\ UNCHANGED tvars

NextEM == NewSession \/ EStep \/ MStep \/ TrainReturns

SpecEM == InitEM /\ [][NextEM]_vars

\* TrainReturns as the session sees it: the call comes to an end, by
\* returning the session or by raising
CallEnds ==
    /\ em_session.returned = ""
    /\ em_session.state \in EndStates
    /\ \E returned \in {"session", "raised"} :
          em_session' = [em_session EXCEPT !.returned = returned]

\* the call is synchronous: once the session exists, each step of the loop and
\* the end of the call follow without waiting for anything
SpecEMFair == SpecEM /\ WF_em_session(EStep \/ MStep \/ CallEnds)

(***************************************************************************)
(* Properties of the blocking compiler.                                    *)
(***************************************************************************)
BlockingDone == b_pc = "done"
UsesRules == settings.has_blocking_rules /\ Len(settings.blocking_rules) > 0
Rows == df_comparison.rows

\* rule number i (0-based, as match_key counts) is true for the pair (a, b)
RuleTrue(i, a, b) == EvalRule(settings.blocking_rules[i + 1], Rec(a), Rec(b)) = T3
RuleNull(i, a, b) == EvalRule(settings.blocking_rules[i + 1], Rec(a), Rec(b)) = N3
RuleIndexes == 0..(Len(settings.blocking_rules) - 1)

\* the rows emitted for the unordered pair {a, b}
RowsOfPair(a, b) == {row \in Rows : {row.l, row.r} = {a, b}}

CompositeLess(a, b) ==
    StrLess(sql_gen_composite_unique_id(a), sql_gen_composite_unique_id(b))

\* C1: for a dedupe_only table and a list of blocking rules, the UNION ALL of
\* the per-rule selects holds every unordered pair of distinct records that
\* satisfies at least one rule exactly once (and no other pair): no pair comes
\* from two rules, no (b,a) row accompanies an (a,b) row, no self-pair (a,a).
C1_BlockingUniqueComplete ==
    (BlockingDone /\ settings.link_type = "dedupe_only" /\ UsesRules) =>
        /\ \A row \in Rows : row.l # row.r
        /\ \A a \in DOMAIN df, b \in DOMAIN df :
              a # b =>
                 IF \E i \in RuleIndexes : RuleTrue(i, a, b) \/ RuleTrue(i, b, a)
                 THEN Cardinality(RowsOfPair(a, b)) = 1
                 ELSE RowsOfPair(a, b) = {}

\* C2: every row the rule selects emit carries as match_key the index of the
\* first rule, in declared order, whose predicate is true for its (l, r) pair;
\* so rule i contributes only pairs for which none of the rules before it is true.
C2_FirstMatchingRuleWins ==
    (BlockingDone /\ UsesRules) =>
        \A row \in Rows :
            /\ row.match_key \in RuleIndexes
            /\ RuleTrue(row.match_key, row.l, row.r)
            /\ \A j \in RuleIndexes : j < row.match_key => ~RuleTrue(j, row.l, row.r)

\* a pair true for both rules is emitted by the first only, next to a pair
\* that only the second rule emits
C2_Witness ==
    /\ BlockingDone /\ UsesRules /\ Len(settings.blocking_rules) = 2
    /\ \E row \in Rows : row.match_key = 1
    /\ \E row \in Rows : row.match_key = 0 /\ RuleTrue(1, row.l, row.r)

\* the pair is one the link type compares (section 4.3 of the specification)
LinkTypeAdmits(a, b) ==
    /\ CompositeLess(a, b)
    /\ settings.link_type = "link_only" => a.source_dataset # b.source_dataset

\* C3: a pair for which an earlier rule evaluates to SQL NULL and a later rule is
\* true (no earlier rule being true) is emitted by the later rule: in the
\* NOT (previous rules) clause NULL counts as false.
C3_NullSafeExclusion ==
    (BlockingDone /\ UsesRules) =>
        \A a \in DOMAIN df, b \in DOMAIN df : \A i \in RuleIndexes :
            ( /\ LinkTypeAdmits(a, b)
              /\ RuleTrue(i, a, b)
              /\ \E j \in RuleIndexes : j < i /\ RuleNull(j, a, b)
              /\ \A j \in RuleIndexes : j < i => ~RuleTrue(j, a, b) )
            => [l |-> a, r |-> b, match_key |-> i] \in Rows

\* C4: for link_only and link_and_dedupe every emitted pair has
\* composite_id(l) < composite_id(r); link_only pairs come from two different
\* source datasets; link_and_dedupe emits no self-pair and no unordered pair
\* twice, and its cross join emits every unordered pair of distinct records,
\* within one dataset or across two, exactly once.
C4_LinkTypeConstraint ==
    (BlockingDone /\ settings.link_type \in {"link_only", "link_and_dedupe"}) =>
        /\ ~df_comparison.raised
        /\ \A row \in Rows : CompositeLess(row.l, row.r)
        /\ settings.link_type = "link_only" =>
              \A row \in Rows : row.l.source_dataset # row.r.source_dataset
        /\ settings.link_type = "link_and_dedupe" =>
              /\ \A row \in Rows : row.l # row.r
              /\ \A a \in DOMAIN df, b \in DOMAIN df :
                    a # b => Cardinality(RowsOfPair(a, b)) <= 1
              /\ ~UsesRules =>
                    \A a \in DOMAIN df, b \in DOMAIN df :
                        a # b => Cardinality(RowsOfPair(a, b)) = 1

\* link_and_dedupe emitting a pair within one dataset and a pair across two
C4_Witness ==
    /\ BlockingDone /\ settings.link_type = "link_and_dedupe"
    /\ \E row \in Rows : row.l.source_dataset = row.r.source_dataset
    /\ \E row \in Rows : row.l.source_dataset # row.r.source_dataset

\* C5: without a blocking_rules key, or with an empty list, block_using_rules
\* emits a cross join under the link type's constraint: every unordered pair
\* the link type admits appears exactly once, tagged match_key 0, and nothing
\* else; with at least one rule no cross join is generated.
C5_CartesianFallback ==
    BlockingDone =>
        /\ ~UsesRules =>
              /\ ~df_comparison.raised
              /\ Len(df_comparison.sqls) = 1
              /\ df_comparison.sqls[1].join = "cross join"
              /\ \A row \in Rows : row.match_key = 0
              /\ \A a \in DOMAIN df, b \in DOMAIN df :
                    a # b =>
                       IF settings.link_type = "link_only"
                             /\ a.source_dataset = b.source_dataset
                       THEN RowsOfPair(a, b) = {}
                       ELSE Cardinality(RowsOfPair(a, b)) = 1
              /\ \A row \in Rows : row.l # row.r
        /\ UsesRules =>
              \A i \in 1..Len(df_comparison.sqls) :
                  df_comparison.sqls[i].join # "cross join"

(***************************************************************************)
(* Properties of the pipeline and the caching facade.                      *)
(***************************************************************************)
\* the step is one call of sql_to_dataframe (direct, or through a flush)
CallStep == n_calls' = n_calls + 1
\* the call of this step is the watched one and returned a handle
WatchedReturn ==
    /\ CallStep /\ ~ret'.raised
    /\ ret'.sql = watch.sql
    /\ ret'.handle.templated_name = watch.output_table_name

\* C6 as claimed: a call whose text's hash names an existing table makes no
\* backend call and returns that table; hence a call repeated with the same SQL
\* text and output name causes at most one backend execution in total (counted
\* here in the claim's favour: executions that did not raise) and returns the
\* same physical table every time.
C6_MemoizationIdempotent ==
    [][ /\ (CallStep /\ HashName(ret'.sql) \in DOMAIN tables) =>
              /\ n_backend' = n_backend
              /\ ret'.handle.physical_name = HashName(ret'.sql)
        /\ w_stat'.successes <= 1
        /\ Cardinality(w_stat'.physical_names) <= 1 ]_vars

\* C6 amended: a call whose text's hash names an existing table makes no
\* backend call and returns that table, or the table of the output name if
\* there is one; a call repeated with the same SQL text and output name causes
\* at most one successful backend execution in total (an execution that raises
\* creates nothing, and the repeat executes again), and every return hands
\* back the table handed back before, unless a table of the output name
\* exists by then, which is handed back instead.
C6_MemoizationAmended ==
    [][ /\ (CallStep /\ HashName(ret'.sql) \in DOMAIN tables) =>
              /\ n_backend' = n_backend
              /\ ~ret'.raised
              /\ ret'.handle.physical_name =
                    IF ret'.handle.templated_name \in DOMAIN tables
                    THEN ret'.handle.templated_name
                    ELSE HashName(ret'.sql)
        /\ w_stat'.successes <= 1
        /\ w_stat'.executions > w_stat.executions =>
              (w_stat.successes = 0 /\ w_stat.physical_names = {})
        /\ WatchedReturn =>
              /\ ret'.handle.physical_name
                    \in {watch.output_table_name, HashName(watch.sql)}
              /\ w_stat.physical_names # {} =>
                    \/ ret'.handle.physical_name \in w_stat.physical_names
                    \/ /\ ret'.handle.physical_name = watch.output_table_name
                       /\ watch.output_table_name \in DOMAIN tables ]_vars

\* the watched call was executed once, and its repeats were served by its
\* hash-named table and then by a table of its output name made in between
C6_Witness ==
    /\ w_stat.successes = 1
    /\ w_stat.physical_names = {watch.output_table_name, HashName(watch.sql)}
    /\ ret.served = "logical name"
    /\ ret.sql = watch.sql

IsCall == ret.op \in {"execute_sql_pipeline", "sql_to_dataframe"}

\* C7 as claimed: every call that returns hands back a table that was
\* materialised from the SQL text of that call.
C7_NoStaleResult ==
    (IsCall /\ ~ret.raised) => tables[ret.handle.physical_name] = ret.sql

\* C7 amended: a call that returns hands back a table materialised from the SQL
\* text of that call whenever no table of the output name exists when the call
\* is made; if one exists it is handed back as it is, whatever text it holds.
C7_NoStaleResultAmended ==
    [][ (CallStep /\ ~ret'.raised) =>
            IF ret'.handle.templated_name \in DOMAIN tables
            THEN /\ ret'.handle.physical_name = ret'.handle.templated_name
                 /\ tables' = tables
            ELSE /\ ret'.handle.physical_name \in DOMAIN tables'
                 /\ tables'[ret'.handle.physical_name] = ret'.sql ]_vars

\* a text is executed afresh under an output name that the watched call, with
\* another text, was served under before
C7_Witness ==
    /\ IsCall /\ ret.served = "executed"
    /\ ret.handle.templated_name = watch.output_table_name
    /\ ret.sql # watch.sql
    /\ w_stat.physical_names # {}
    /\ tables[ret.handle.physical_name] = ret.sql

\* C24: the backend's tables only grow and keep what they hold: no step drops
\* a table or changes its contents; every backend execution that succeeds
\* creates a table that did not exist, so that it happens at most once per
\* physical table name; and execute_sql with the text of a call, on any
\* physical name that exists when the call is made, leaves the tables as
\* they are.
C24_TablesWriteOnce ==
    [][ /\ \A name \in DOMAIN tables :
              /\ name \in DOMAIN tables'
              /\ tables'[name] = tables[name]
        /\ (n_backend' = n_backend + 1 /\ ~ret'.raised) =>
              /\ ret'.handle.physical_name \notin DOMAIN tables
              /\ DOMAIN tables' = DOMAIN tables \cup {ret'.handle.physical_name}
              /\ tables'[ret'.handle.physical_name] = ret'.sql
        /\ n_backend' = n_backend => tables' = tables
        /\ CallStep =>
              \A name \in DOMAIN tables :
                  execute_sql(LinkerState, ret'.sql, name, name, TRUE).tables
                      = tables ]_vars

\* two tables have been materialised, one under a hash name, and a later call
\* of the text of one of them was served without a backend execution
C24_Witness ==
    /\ Cardinality(DOMAIN tables) = 3
    /\ \E sql \in SqlAtoms : HashName(Statement(sql)) \in DOMAIN tables
    /\ n_backend = 2
    /\ n_calls = 3
    /\ ret.served \in {"hash", "logical name"}

\* C8: enqueue_sql only appends a stage and calls no backend; after
\* execute_sql_pipeline the queue is empty, whether the result came from an
\* existing table, was executed, or the backend raised; the handle returned
\* carries the output name of the last stage enqueued.
C8_QueueSingleUse ==
    [][ /\ Len(queue') > Len(queue) =>
              /\ queue' = Append(queue, queue'[Len(queue')])
              /\ n_backend' = n_backend
              /\ tables' = tables
        /\ ret'.op = "execute_sql_pipeline" =>
              /\ queue' = <<>>
              /\ ~ret'.raised =>
                    /\ Len(queue) > 0
                    /\ ret'.handle.templated_name =
                          queue[Len(queue)].output_table_name ]_vars

\* a flush of two stages on which the backend raised: the queue is empty
C8_Witness ==
    /\ ret.op = "execute_sql_pipeline"
    /\ ret.served = "raised"
    /\ Len(ret.sql) = 2
    /\ queue = <<>>

(***************************************************************************)
(* Properties of the comparison level.                                     *)
(***************************************************************************)
\* the level has resolved numeric m and u
Resolved ==
    /\ ~level.is_null_level
    /\ IsNum(m_probability(level))
    /\ IsNum(u_probability(level))

\* the level as it would be with the fixed u probability u2
WithU(u2) == [level EXCEPT !.u_probability = u2]

\* bf is the quotient m / u
IsQuotient(bf, m, u) ==
    /\ IsNum(bf)
    /\ bf.n * u.n * m.d = m.n * bf.d * u.d

\* the definition half of C9: m / u, math.inf at u == 0, and the SQL literal
BayesFactorDefinition ==
    LET m == m_probability(level)
        u == u_probability(level)
    IN  /\ (u.n = 0 => bayes_factor(level) = Inf)
        /\ (u.n # 0 => IsQuotient(bayes_factor(level), m, u))
        /\ (u.n = 0 <=> bayes_factor_sql(level).then_cast.literal = "'Infinity'")
        /\ (u.n # 0 => bayes_factor_sql(level).then_cast.value = bayes_factor(level))

\* C9: for a non-null level with resolved probabilities m and u the Bayes
\* factor is m / u, it is infinity when u is 0, infinity is written to SQL as
\* the literal 'Infinity', and for fixed m every strictly smaller u gives a
\* strictly larger Bayes factor.
C9_BayesFactorMonotone ==
    Resolved =>
        /\ BayesFactorDefinition
        /\ \A u2 \in FixedProbabilities :
               Less(u2, u_probability(level))
                   => Less(bayes_factor(level), bayes_factor(WithU(u2)))

\* C9, amended: the same, with the strict growth claimed only for m > 0 (for
\* m = 0 the Bayes factor is 0 at every u > 0, and infinity at u = 0).
C9_BayesFactorMonotoneAmended ==
    Resolved =>
        /\ BayesFactorDefinition
        /\ \A u2 \in FixedProbabilities :
               /\ Less(u2, u_probability(level))
               /\ (m_probability(level).n > 0 \/ u2.n = 0)
               => Less(bayes_factor(level), bayes_factor(WithU(u2)))
        /\ \A u2 \in FixedProbabilities :
               /\ Less(u2, u_probability(level))
               /\ m_probability(level).n = 0 /\ u2.n # 0
               => bayes_factor(level) = bayes_factor(WithU(u2))

\* a level whose u was set to 1/2 with m = 1/4: Bayes factor 1/2, and the
\* smaller u = 1/4 and u = 0 are there to compare with
C9_Witness ==
    /\ Resolved
    /\ lv_ret.op = "u_probability" /\ ~lv_ret.raised
    /\ m_probability(level) = Num(1, 4)
    /\ u_probability(level) = Num(1, 2)
    /\ bayes_factor(level) = Num(1, 2)
    /\ bayes_factor(WithU(Num(0, 1))) = Inf

\* C10: a null level is neutral whatever m and u it was constructed with and
\* whatever training has happened: its Bayes factor is 1 (in SQL too), its
\* log2 Bayes factor is 0, and its m and u getters return None.
C10_NullLevelNeutral ==
    level.is_null_level =>
        /\ bayes_factor(level) = Num(1, 1)
        /\ bayes_factor_sql(level).then_cast = [literal |-> "", value |-> Num(1, 1)]
        /\ log2_bayes_factor(level) = Num(0, 1)
        /\ m_probability(level) = None
        /\ u_probability(level) = None

\* a null level constructed with m and u, with trained values recorded and a
\* setter call just refused
C10_Witness ==
    /\ level.is_null_level
    /\ IsNum(level.m_probability) /\ IsNum(level.u_probability)
    /\ level.trained_m_probabilities # <<>>
    /\ level.trained_u_probabilities # <<>>
    /\ lv_ret.raised

\* a step that is a call of a setter
SetterStep ==
    /\ lv_ret'.op \in {"m_probability", "u_probability"}
    /\ <<level, lv_ret>> # <<level', lv_ret'>>

\* C11: setting m_probability or u_probability on a null level fails (the
\* setter raises; the spec's ConfigurationError is python's AttributeError
\* here) and leaves the stored m and u, the warning flags and the trained
\* histories as they were.
C11_NullLevelSetterFails ==
    [][(SetterStep /\ level.is_null_level)
          => /\ lv_ret'.raised
             /\ lv_ret'.error = "AttributeError"
             /\ ~lv_ret'.warned
             /\ level' = level]_vars

\* a null level with stored m and u and a trained history, on which the
\* m_probability setter has just raised
C11_Witness ==
    /\ level.is_null_level
    /\ lv_ret.op = "m_probability" /\ lv_ret.raised
    /\ level.m_probability = Num(1, 2) /\ level.u_probability = Num(1, 4)
    /\ level.trained_m_probabilities # <<>>

\* C12: over any sequence of assignments the 'not observed' warning is
\* emitted at most once for m and at most once for u: a warning is emitted
\* only while the kind's flag is down and raises it, a raised flag is never
\* lowered, and a later NOT_OBSERVED assignment stores the sentinel silently.
C12_WarnOnce ==
    [][/\ (level.m_warning_sent => level'.m_warning_sent)
       /\ (level.u_warning_sent => level'.u_warning_sent)
       /\ (lv_ret'.warned => SetterStep)
       /\ (SetterStep /\ lv_ret'.op = "m_probability" /\ lv_ret'.warned
              => ~level.m_warning_sent /\ level'.m_warning_sent
                 /\ level'.u_warning_sent = level.u_warning_sent)
       /\ (SetterStep /\ lv_ret'.op = "u_probability" /\ lv_ret'.warned
              => ~level.u_warning_sent /\ level'.u_warning_sent
                 /\ level'.m_warning_sent = level.m_warning_sent)
       /\ (level.m_warning_sent
              => LET r == set_m_probability(level, LEVEL_NOT_OBSERVED_TEXT)
                 IN  ~r.raised /\ ~r.warned
                     /\ r.level.m_probability = LEVEL_NOT_OBSERVED_TEXT)
       /\ (level.u_warning_sent
              => LET r == set_u_probability(level, LEVEL_NOT_OBSERVED_TEXT)
                 IN  ~r.raised /\ ~r.warned
                     /\ r.level.u_probability = LEVEL_NOT_OBSERVED_TEXT)]_vars

\* NOT_OBSERVED has just been assigned to m a second time, silently, after
\* both kinds have warned
C12_Witness ==
    /\ level.m_warning_sent /\ level.u_warning_sent
    /\ lv_ret.op = "m_probability" /\ ~lv_ret.raised /\ ~lv_ret.warned
    /\ level.m_probability = LEVEL_NOT_OBSERVED_TEXT
    /\ level.u_probability # LEVEL_NOT_OBSERVED_TEXT

RECURSIVE SumTo(_, _)
SumTo(vals, k) == IF k = 0 THEN Num(0, 1) ELSE Add(SumTo(vals, k - 1), vals[k])

\* the default m the claim gives for vector value v among n levels
ClaimedDefaultM(n, v) ==
    IF v = n - 1 THEN Num(19, 20) ELSE Num(1, 20 * (n - 1))

\* C13: for a non-null level each getter returns the stored value when a
\* number is stored, 1e-6 (not 0) when NOT_OBSERVED is stored, and otherwise
\* a default given by the level's vector value among the n levels of its
\* comparison: for m, 0.95 at the last position and 0.05/(n-1) at the others,
\* the n values summing to 1; for u, the default m divided by 2^10 at the
\* last position and by 2^-5 at the first.
C13_ThreeTierResolution ==
    ~level.is_null_level =>
        /\ (IsNum(level.m_probability) => m_probability(level) = level.m_probability)
        /\ (IsNum(level.u_probability) => u_probability(level) = level.u_probability)
        /\ (level.m_probability = LEVEL_NOT_OBSERVED_TEXT
               => m_probability(level) = Num(1, 1000000) /\ m_probability(level).n # 0)
        /\ (level.u_probability = LEVEL_NOT_OBSERVED_TEXT
               => u_probability(level) = Num(1, 1000000) /\ u_probability(level).n # 0)
        /\ (level.has_comparison /\ level.m_probability = None
               => /\ m_probability(level)
                        = ClaimedDefaultM(level.num_levels, level.comparison_vector_value)
                  /\ SumTo(default_m_values(level.num_levels), level.num_levels)
                        = Num(1, 1))
        /\ (level.has_comparison /\ level.u_probability = None
               => LET v == level.comparison_vector_value
                      n == level.num_levels
                  IN  /\ IsNum(u_probability(level))
                      /\ (v = n - 1 => Div(ClaimedDefaultM(n, v), u_probability(level))
                                           = Num(1024, 1))
                      /\ (v = 0 => Div(ClaimedDefaultM(n, v), u_probability(level))
                                       = Num(1, 32)))

\* a level in the first of three positions with nothing stored for m and
\* NOT_OBSERVED assigned to u
C13_Witness ==
    /\ ~level.is_null_level /\ level.has_comparison
    /\ level.num_levels = 3 /\ level.comparison_vector_value = 0
    /\ level.m_probability = None
    /\ level.u_probability = LEVEL_NOT_OBSERVED_TEXT
    /\ m_probability(level) = Num(1, 40)
    /\ u_probability(level) = Num(1, 1000000)
    /\ lv_ret.op = "u_probability"

(***************************************************************************)
(* Properties of the trained histories.                                    *)
(***************************************************************************)
\* med is the median of the non-empty list vals: the mean of two entries a <= b
\* (one and the same entry when the list is odd) with no entry strictly
\* between them, at most half of the entries below it and at most half above
IsMedianOf(med, vals) ==
    LET n == Len(vals)
        below == {k \in 1..n : Less(vals[k], med)}
        above == {k \in 1..n : Less(med, vals[k])}
    IN  /\ IsNum(med)
        /\ 2 * Cardinality(below) <= n
        /\ 2 * Cardinality(above) <= n
        /\ \E i, j \in 1..n :
              /\ (n % 2 = 1 <=> i = j)
              /\ ~Less(vals[j], vals[i])
              /\ med = Div(Add(vals[i], vals[j]), Num(2, 1))
              /\ \A k \in 1..n : ~(Less(vals[i], vals[k]) /\ Less(vals[k], vals[j]))

\* the values of a list, as a set
Range(vals) == {vals[k] : k \in 1..Len(vals)}

\* C14: the representative trained m (and u) of a level is the median of the
\* numeric values appended to its history so far: none for a history without
\* numeric values, 0.85 after sessions contributing 0.8 and 0.9, 0.9 after a
\* third contributing 0.95, NOT_OBSERVED entries being ignored.
C14_TrainedMedian ==
    LET ms == numeric_values(level.trained_m_probabilities)
        us == numeric_values(level.trained_u_probabilities)
    IN  /\ Len(ms) = Cardinality({k \in DOMAIN level.trained_m_probabilities :
                  level.trained_m_probabilities[k].probability
                      # LEVEL_NOT_OBSERVED_TEXT})
        /\ (Len(ms) = 0 => trained_m_median(level) = None)
        /\ (Len(us) = 0 => trained_u_median(level) = None)
        /\ (Len(ms) > 0 => IsMedianOf(trained_m_median(level), ms))
        /\ (Len(us) > 0 => IsMedianOf(trained_u_median(level), us))
        /\ (Len(ms) = 2 /\ Range(ms) = {Num(4, 5), Num(9, 10)}
               => trained_m_median(level) = Num(17, 20))
        /\ (Len(ms) = 3 /\ Range(ms) = {Num(4, 5), Num(9, 10), Num(19, 20)}
               => trained_m_median(level) = Num(9, 10))

\* three sessions have contributed 0.8, 0.9 and 0.95 to m, in this order, and
\* one of them an estimate of u
C14_Witness ==
    /\ numeric_values(level.trained_m_probabilities)
           = <<Num(4, 5), Num(9, 10), Num(19, 20)>>
    /\ trained_m_median(level) = Num(9, 10)
    /\ Len(level.trained_u_probabilities) = 1
    /\ trained_u_median(level) = Num(1, 4)
    /\ lv_ret.op = "train_m_using_expectation_maximisation"

\* history a is the beginning of history b
IsPrefix(a, b) == Len(a) <= Len(b) /\ SubSeq(b, 1, Len(a)) = a

TfSqlReturned == tf_ret.op = "_tf_adjustment_sql"

\* one of the four cases in which the level has no adjustment
NoOpCase ==
    \/ level.comparison_vector_value = -1
    \/ level.tf_adjustment_column = NoColumn
    \/ level.tf_adjustment_weight = Num(0, 1)
    \/ level.sql_condition = Else

\* C16: for a level whose vector value is -1, or that has no tf column, or
\* whose tf weight is 0, or that is the ELSE level, _tf_adjustment_sql yields
\* the constant multiplier 1 for every pair, performs no exact match lookup
\* and raises nothing.
C16_TfNoOp ==
    TfSqlReturned /\ NoOpCase =>
        /\ ~tf_ret.raised
        /\ ~tf_ret.sql.lookup
        /\ tf_ret.sql.kind = "one"
        /\ tf_ret.sql.when_gamma = level.comparison_vector_value
        /\ \A tf_l \in TermFrequencies, tf_r \in TermFrequencies :
               EvalTfAdjustment(tf_ret.sql, tf_l, tf_r) = Num(1, 1)

\* a level with a tf column and weight 0 among levels none of which is an
\* exact match on that column: the lookup would have failed
C16_Witness ==
    /\ TfSqlReturned /\ ~tf_ret.raised
    /\ level.tf_adjustment_column = "first_name"
    /\ level.tf_adjustment_weight = Num(0, 1)
    /\ level.comparison_vector_value = 0
    /\ level.sql_condition = Condition(<<OtherClause>>)
    /\ Len(comparison_levels) = 3
    /\ \A i \in 1..Len(comparison_levels) :
           comparison_levels[i].sql_condition # Condition(<<"first_name">>)

\* the levels of the comparison that are an exact match on the level's tf
\* column and on nothing else
ExactMatchLevels ==
    {i \in 1..Len(comparison_levels) :
        comparison_levels[i].sql_condition = Condition(<<level.tf_adjustment_column>>)}

\* C17: for a level with an active tf adjustment the lookup uses the u
\* probability of the one level that is an exact match on exactly the tf
\* column, and fails when there is no such level and when there is more
\* than one.
C17_ExactMatchLookup ==
    TfSqlReturned /\ ~NoOpCase =>
        /\ (Cardinality(ExactMatchLevels) = 1
               => /\ ~tf_ret.raised
                  /\ \A i \in ExactMatchLevels :
                         tf_ret.sql.u_prob_exact_match
                             = u_probability(comparison_levels[i]))
        /\ (Cardinality(ExactMatchLevels) = 0 => tf_ret.raised)
        /\ (Cardinality(ExactMatchLevels) > 1 => tf_ret.raised)

\* tf_minimum_u_value is greater than every term frequency the pair has
ExceedsObserved(minimum, tf_l, tf_r) ==
    \A tf \in {tf_l, tf_r} \ {SqlNull} : Less(tf, minimum)

\* C18: with tf_adjustment_weight = 0, or with tf_minimum_u_value greater
\* than every observed term frequency of the pair, the multiplier the
\* generated SQL computes is 1.0.
C18_TfIdempotence ==
    TfSqlReturned /\ ~tf_ret.raised =>
        \A tf_l \in TermFrequencies, tf_r \in TermFrequencies :
            (\/ level.tf_adjustment_weight = Num(0, 1)
             \/ ExceedsObserved(level.tf_minimum_u_value, tf_l, tf_r))
                => EvalTfAdjustment(tf_ret.sql, tf_l, tf_r) = Num(1, 1)

\* C18, amended: with tf_adjustment_weight = 0 the multiplier is 1.0; with
\* tf_minimum_u_value greater than every observed term frequency of the pair
\* the multiplier does not depend on the frequencies: it is
\* (u_exact / tf_minimum_u_value) ^ weight when a frequency is observed and
\* the adjustment is active, and 1.0 otherwise.
C18_TfIdempotenceAmended ==
    TfSqlReturned /\ ~tf_ret.raised =>
        \A tf_l \in TermFrequencies, tf_r \in TermFrequencies :
            /\ (level.tf_adjustment_weight = Num(0, 1)
                   => EvalTfAdjustment(tf_ret.sql, tf_l, tf_r) = Num(1, 1))
            /\ (ExceedsObserved(level.tf_minimum_u_value, tf_l, tf_r)
                   => EvalTfAdjustment(tf_ret.sql, tf_l, tf_r)
                        = IF NoOpCase \/ (tf_l = SqlNull /\ tf_r = SqlNull)
                          THEN Num(1, 1)
                          ELSE PowInt(Div(tf_ret.sql.u_prob_exact_match,
                                          level.tf_minimum_u_value),
                                      level.tf_adjustment_weight.n))

\* an active adjustment with u_exact = 1/2 and tf_minimum_u_value = 1/4: for
\* a pair whose only frequency is 1/8 the multiplier is 2
C18_Witness ==
    /\ TfSqlReturned /\ ~tf_ret.raised /\ ~NoOpCase
    /\ level.tf_minimum_u_value = Num(1, 4)
    /\ level.tf_adjustment_weight = Num(1, 1)
    /\ tf_ret.sql.u_prob_exact_match = Num(1, 2)
    /\ ExceedsObserved(level.tf_minimum_u_value, Num(1, 8), SqlNull)
    /\ EvalTfAdjustment(tf_ret.sql, Num(1, 8), SqlNull) = Num(2, 1)

(***************************************************************************)
(* Properties of the match prior.                                          *)
(***************************************************************************)
PopulatedPrior ==
    /\ pm_ret.op = "populate_proportion_of_matches_from_trained_values"
    /\ ~pm_ret.raised

\* the Bayes factor the claim gives a reversed level: trained median m over
\* trained median u when the level is trained, its current Bayes factor otherwise
ClaimedBayesFactor(cl) ==
    IF is_trained(cl)
    THEN IF IsNum(trained_m_median(cl)) /\ IsNum(trained_u_median(cl))
              /\ trained_u_median(cl).n # 0
         THEN Div(trained_m_median(cl), trained_u_median(cl))
         ELSE Error
    ELSE bayes_factor(cl)

\* the product of the reversed levels' Bayes factors, from the k-th on
RECURSIVE ClaimedProduct(_, _)
ClaimedProduct(reverse_levels, k) ==
    IF k > Len(reverse_levels) THEN Num(1, 1)
    ELSE LET bf == ClaimedBayesFactor(Levels[reverse_levels[k]])
             rest == ClaimedProduct(reverse_levels, k + 1)
         IN  IF bf.kind = "inf" /\ rest.kind \in {"num", "inf"} THEN Inf
             ELSE IF rest.kind = "inf" /\ bf.kind = "num" THEN Inf
             ELSE IF ~IsNum(bf) \/ ~IsNum(rest) THEN Error
             ELSE Num(bf.n * rest.n, bf.d * rest.d)

\* the probability whose odds are the session's trained odds divided by the
\* product of its reversed levels' Bayes factors
ClaimedEstimate(session) ==
    LET lambda == session.proportion_of_matches
        product == ClaimedProduct(session.reverse_levels, 1)
    IN  IF product.kind = "inf" THEN Num(0, 1)
        ELSE IF ~IsNum(product) \/ product.n = 0 THEN Error
        ELSE LET lambda_bf == Num(lambda.n * product.d,
                                  (lambda.d - lambda.n) * product.n)
             IN  Num(lambda_bf.n, lambda_bf.d + lambda_bf.n)

ClaimedEstimates ==
    [k \in 1..Len(em_training_sessions) |-> ClaimedEstimate(em_training_sessions[k])]

PairFrequencies == {SqlNull, Num(0, 1), Num(1, 8), Num(1, 4), Num(1, 2)}

\* the greater of two numbers
Greater(a, b) == IF Less(a, b) THEN b ELSE a

\* the SQL the level returned, with the divisor written in the given form
\* for the given tf_minimum_u_value
WithDivisor(form, minimum) ==
    [tf_ret.sql EXCEPT !.divisor = form, !.tf_minimum_u_value = minimum]

\* C23: for a pair with at least one frequency, a = COALESCE(tf_l, tf_r) and
\* b = COALESCE(tf_r, tf_l), the divisor the returned SQL computes is
\* max(max(a, b), tf_minimum_u_value); and the general form of the divisor,
\* evaluated with tf_minimum_u_value = 0, gives what the short form gives,
\* max(a, b).
C23_DivisorEquivalence ==
    TfSqlReturned /\ ~tf_ret.raised /\ tf_ret.sql.kind = "pow" =>
        \A tf_l \in PairFrequencies, tf_r \in PairFrequencies :
            Coalesce(tf_l, tf_r) # SqlNull =>
                LET a == Coalesce(tf_l, tf_r)
                    b == Coalesce(tf_r, tf_l)
                IN  /\ EvalDivisor(tf_ret.sql, tf_l, tf_r)
                          = Greater(Greater(a, b), level.tf_minimum_u_value)
                    /\ EvalDivisor(WithDivisor("clamped", level.tf_minimum_u_value),
                                   tf_l, tf_r)
                          = Greater(Greater(a, b), level.tf_minimum_u_value)
                    /\ EvalDivisor(WithDivisor("clamped", Num(0, 1)), tf_l, tf_r)
                          = EvalDivisor(WithDivisor("greater", Num(0, 1)), tf_l, tf_r)
                    /\ EvalDivisor(WithDivisor("greater", Num(0, 1)), tf_l, tf_r)
                          = Greater(a, b)

\* a level with tf_minimum_u_value = 1/4 has returned the general form, which
\* gives 1/2 for the frequencies 1/8 and 1/2 and the minimum for 1/8 alone
C23_Witness ==
    /\ TfSqlReturned /\ ~tf_ret.raised /\ tf_ret.sql.kind = "pow"
    /\ tf_ret.sql.divisor = "clamped"
    /\ level.tf_minimum_u_value = Num(1, 4)
    /\ EvalDivisor(tf_ret.sql, Num(1, 8), Num(1, 2)) = Num(1, 2)
    /\ EvalDivisor(tf_ret.sql, Num(1, 8), SqlNull) = Num(1, 4)

(***************************************************************************)
(* Properties of the minimal representation.                               *)
(***************************************************************************)
\* C27: the level built from the dict as_dict returned has the sql_condition,
\* is_null_level, tf_adjustment_column and tf_adjustment_weight of the
\* original, and its fixed m and u: every number stored in the original,
\* zero included, is stored in the new level.
C27_AsDictRoundTrip ==
    lv_ret.op = "as_dict" =>
        LET new == ComparisonLevel(lv_ret.dict)
        IN  /\ new.sql_condition = level.sql_condition
            /\ new.is_null_level = level.is_null_level
            /\ new.tf_adjustment_column = level.tf_adjustment_column
            /\ new.tf_adjustment_weight = level.tf_adjustment_weight
            /\ (IsNum(level.m_probability) /\ ~level.is_null_level
                   => new.m_probability = level.m_probability)
            /\ (IsNum(level.u_probability) /\ ~level.is_null_level
                   => new.u_probability = level.u_probability)

(***************************************************************************)
(* Properties of predict and incremental_link.                             *)
(***************************************************************************)
\* a Linker on which nothing has been called
FreshLinker ==
    /\ n_calls = 0 /\ n_backend = 0 /\ queue = <<>> /\ ret = NoReturn
    /\ DOMAIN tables \subseteq {InputTable, RightTable}

\* C22: predict() called first on a fresh Linker makes exactly one backend
\* call and materialises no table but the predictions, for every link type.
C22_PredictSinglePipeline ==
    [][ FreshLinker /\ ret'.op = "predict" =>
            /\ n_backend' = n_backend + 1
            /\ n_calls' = 1
            /\ DOMAIN tables' \ DOMAIN tables
                   \subseteq {HashName(ret'.sql)} ]_vars

\* C25: incremental_link leaves the settings' link type as it found it and
\* the pipeline queue empty, whether it returned or the backend raised.
C25_IncrementalLinkRestores ==
    [][ ret'.op = "incremental_link" =>
            /\ settings'.link_type = settings.link_type
            /\ queue' = <<>> ]_vars

(***************************************************************************)
(* Properties of the copy of a Linker.                                     *)
(***************************************************************************)
\* C26: a deep copy starts with an empty session history and settings equal
\* to the original's; no step of the copy, and no mutation made through it,
\* changes the original's settings, match prior, levels, session history or
\* pipeline queue.
C26_CopyIsolation ==
    [][ /\ new_linker'.copied /\ ~new_linker.copied =>
              /\ new_linker'.em_training_sessions = <<>>
              /\ new_linker'.link_type = settings.link_type
              /\ new_linker'.level = level
              /\ new_linker'.proportion_of_matches = proportion_of_matches
        /\ new_linker'.copied =>
              /\ settings' = settings
              /\ level' = level
              /\ other_levels' = other_levels
              /\ proportion_of_matches' = proportion_of_matches
              /\ em_training_sessions' = em_training_sessions
              /\ queue' = queue ]_vars

(***************************************************************************)
(* Properties of the EM session.                                           *)
(***************************************************************************)
\* C21: a session never runs more iterations than the cap; once Initialized
\* the call comes to an end; and it ends with the session Converged or
\* MaxIterationsReached and returned to the caller, not with an exception.
C21_TrainingTerminates ==
    /\ [](em_session.iteration <= MaxIterations)
    /\ (em_session.state = "Initialized") ~> (em_session.returned # "")
    /\ [](em_session.returned # "" =>
            /\ em_session.state \in EndStates
            /\ em_session.returned = "session")

=============================================================================
